---- MODULE Spec2Model ----
(***************************************************************************)
(* The cache-aside subsystem of quickscope: the DuckDB-backed expiring     *)
(* key/value store (quickscope/data/cache.py, class Cache), the wrapper    *)
(* CachedDataFetcher that puts it in front of the DataFetcher              *)
(* (quickscope/data/fetcher.py), and the clock the expiry test reads.      *)
(*                                                                         *)
(* Strings are sequences of one-character strings, so that str.upper(),    *)
(* the key format "{TICKER}:{data_type}" and the LIKE pattern of           *)
(* clear_ticker are computed character by character as the code does.      *)
(***************************************************************************)
EXTENDS Integers, Sequences, FiniteSets, TLC

VARIABLES
    rows,     \* the rows of table `cache` (a set of records, one per INSERT)
    now,      \* the reading of datetime.now()
    ticks,    \* how many times the clock has been advanced
    calls,    \* how many times the wrapper has invoked its fetcher
    last,     \* the most recent call: its arguments, result and exception
    written,  \* history: per (ticker, data type), the latest write that went
              \* through and whether a removal was asked for since
    config,   \* the cache expiration times class Config holds
    procs     \* per thread: the call it is in, its local variables and how far
              \* it has come

vars == <<rows, now, ticks, calls, last, written, config, procs>>

(***************************************************************************)
(* Bounds of the model.                                                    *)
(***************************************************************************)
MaxTicks == 2       \* clock advances per behaviour
MaxCalls == 2       \* fetcher invocations per behaviour
MaxTTL == 1         \* largest explicit expiry_seconds passed to set

(***************************************************************************)
(* Strings.                                                                *)
(***************************************************************************)
LowerCase == <<"a", "b", "c", "d", "e", "f", "g", "h", "i", "j", "k", "l", "m",
               "n", "o", "p", "q", "r", "s", "t", "u", "v", "w", "x", "y", "z">>
UpperCase == <<"A", "B", "C", "D", "E", "F", "G", "H", "I", "J", "K", "L", "M",
               "N", "O", "P", "Q", "R", "S", "T", "U", "V", "W", "X", "Y", "Z">>

\* the upper-case form of each lower-case letter
UpperOf ==
    [ch \in {LowerCase[i] : i \in 1..Len(LowerCase)} |->
        UpperCase[CHOOSE i \in 1..Len(LowerCase) : LowerCase[i] = ch]]

\* str.upper() on one character: cased ASCII letters change, all else stays
UpperChar(ch) == IF ch \in DOMAIN UpperOf THEN UpperOf[ch] ELSE ch

\* str.upper()
upper(s) == [i \in 1..Len(s) |-> UpperChar(s[i])]

\* the data types the code names (keys of expiry_map, tags used by the wrapper)
price == <<"p", "r", "i", "c", "e">>
stock_data == <<"s", "t", "o", "c", "k", "_", "d", "a", "t", "a">>
fundamental == <<"f", "u", "n", "d", "a", "m", "e", "n", "t", "a", "l">>
fundamentals == <<"f", "u", "n", "d", "a", "m", "e", "n", "t", "a", "l", "s">>
options == <<"o", "p", "t", "i", "o", "n", "s">>
options_chain == <<"o", "p", "t", "i", "o", "n", "s", "_", "c", "h", "a", "i", "n">>
news == <<"n", "e", "w", "s">>
analyst_ratings == <<"a", "n", "a", "l", "y", "s", "t", "_", "r", "a", "t", "i", "n", "g", "s">>
market_data == <<"m", "a", "r", "k", "e", "t", "_", "d", "a", "t", "a">>

(***************************************************************************)
(* Config: cache expiration times in seconds.                              *)
(***************************************************************************)
PRICE_CACHE_EXPIRY == 15 * 60
FUNDAMENTAL_CACHE_EXPIRY == 24 * 60 * 60
NEWS_CACHE_EXPIRY == 60 * 60
OPTIONS_CACHE_EXPIRY == 15 * 60

\* the four settings as the module defines them
Config ==
    [PRICE_CACHE_EXPIRY |-> PRICE_CACHE_EXPIRY,
     FUNDAMENTAL_CACHE_EXPIRY |-> FUNDAMENTAL_CACHE_EXPIRY,
     NEWS_CACHE_EXPIRY |-> NEWS_CACHE_EXPIRY,
     OPTIONS_CACHE_EXPIRY |-> OPTIONS_CACHE_EXPIRY]

(***************************************************************************)
(* Python values.  Every value is a record of one shape: its class, the    *)
(* ticker it carries, the time it was built, its content, and (for a       *)
(* MarketData bundle) its five components.                                 *)
(***************************************************************************)
PyObj(kind, ticker, ts, v) ==
    [kind |-> kind, ticker |-> ticker, timestamp |-> ts, v |-> v, parts |-> <<>>]

None == PyObj("None", <<>>, 0, 0)

\* an object pickle cannot serialize (it holds a lambda, a lock, a generator)
Unpicklable == PyObj("unpicklable", <<>>, 0, 0)

\* the exceptions a call can end in
NoExc == "none"
StorageError == "duckdb.Error"
ProviderError == "provider error"
ValueError == "ValueError"

\* the omitted expiry_seconds argument of set (its default None)
NoTTL == -1

(***************************************************************************)
(* The serialization codec: pickle.dumps / pickle.loads.  A blob is the    *)
(* pickle of an object, or bytes that are no pickle at all.                *)
(***************************************************************************)
Garbage == [fmt |-> "garbage", obj |-> None]

CanPickle(data) == data.kind # "unpicklable"

dumps_losing_content(data) == [fmt |-> "pickle", obj |-> [data EXCEPT !.v = 0]]

\* pickle.dumps(data), for data that can be pickled
dumps(data) == [fmt |-> "pickle", obj |-> data]

CanUnpickle(blob) == blob.fmt = "pickle"

\* pickle.loads(blob), for a blob that is a pickle
loads(blob) == blob.obj

(***************************************************************************)
(* class Cache.  Each operation is a function of the table and its         *)
(* arguments to the table it leaves, the value it returns, and the         *)
(* exception it ends in.  `f` says where the storage layer fails during    *)
(* the call: "connect" (duckdb.connect raises), "query" (conn.execute      *)
(* raises) or "none".                                                      *)
(***************************************************************************)
Faults == {"none", "connect", "query"}

NoStats == <<0, 0, 0>>

Out(rs, result, raised) ==
    [rows |-> rs, result |-> result, raised |-> raised, stats |-> NoStats]

Row(key, value, data_type, timestamp, expiry_seconds) ==
    [key |-> key, value |-> value, data_type |-> data_type,
     timestamp |-> timestamp, expiry_seconds |-> expiry_seconds]

_make_key_keeping_case(ticker, data_type) == ticker \o <<":">> \o data_type

_ensure_schema_recreating(rs, f) ==
    IF f # "none" THEN Out(rs, None, StorageError) ELSE Out({}, None, NoExc)

\* Cache._ensure_schema, called by Cache.__init__: CREATE TABLE IF NOT EXISTS
\* on a database that has the table creates nothing.  Neither a failure to
\* connect nor a failing statement is caught (try/finally without except).
_ensure_schema(rs, f) ==
    IF f # "none" THEN Out(rs, None, StorageError) ELSE Out(rs, None, NoExc)

\* Cache._make_key: f"{ticker.upper()}:{data_type}"
_make_key(ticker, data_type) == upper(ticker) \o <<":">> \o data_type

_is_expired_at_boundary(timestamp, expiry_seconds) == now >= timestamp + expiry_seconds

_is_expired_by_current_default(timestamp, expiry_seconds) ==
    now > timestamp + config.PRICE_CACHE_EXPIRY

\* Cache._is_expired: datetime.now() > timestamp + timedelta(seconds=expiry_seconds)
_is_expired(timestamp, expiry_seconds) == now > timestamp + expiry_seconds

_get_default_expiry_short_fallback(data_type) ==
    CASE data_type \in {fundamental, fundamentals, analyst_ratings} ->
            config.FUNDAMENTAL_CACHE_EXPIRY
      [] data_type = news -> config.NEWS_CACHE_EXPIRY
      [] OTHER -> config.PRICE_CACHE_EXPIRY

\* Cache._get_default_expiry: expiry_map.get(data_type, Config.FUNDAMENTAL_CACHE_EXPIRY),
\* the map built from class Config at each call
_get_default_expiry(data_type) ==
    CASE data_type = price -> config.PRICE_CACHE_EXPIRY
      [] data_type = stock_data -> config.PRICE_CACHE_EXPIRY
      [] data_type = fundamental -> config.FUNDAMENTAL_CACHE_EXPIRY
      [] data_type = fundamentals -> config.FUNDAMENTAL_CACHE_EXPIRY
      [] data_type = options -> config.OPTIONS_CACHE_EXPIRY
      [] data_type = options_chain -> config.OPTIONS_CACHE_EXPIRY
      [] data_type = news -> config.NEWS_CACHE_EXPIRY
      [] data_type = analyst_ratings -> config.FUNDAMENTAL_CACHE_EXPIRY
      [] data_type = market_data -> config.PRICE_CACHE_EXPIRY
      [] OTHER -> config.FUNDAMENTAL_CACHE_EXPIRY

\* DELETE FROM cache WHERE key = ?
DeleteWhereKey(rs, key) == {r \in rs : r.key # key}

InsertKeepingOld(rs, row) == rs \cup {row}

InsertUpdatingValueOnly(rs, row) ==
    LET old == {r \in rs : r.key = row.key}
    IN  IF old = {} THEN rs \cup {row}
        ELSE (rs \ old) \cup {[r EXCEPT !.value = row.value] : r \in old}

\* INSERT OR REPLACE INTO cache ... : the row with the new row's primary key
\* goes, the new row comes
InsertOrReplace(rs, row) == {r \in rs : r.key # row.key} \cup {row}

delete_all_of_ticker(rs, ticker, data_type, f) ==
    IF f = "connect" THEN Out(rs, None, StorageError)
    ELSE IF f = "query" THEN Out(rs, None, NoExc)
    ELSE Out({r \in rs : SubSeq(r.key, 1, Len(ticker)) # upper(ticker)}, None, NoExc)

\* Cache.delete.  The connection is opened before the try block, so a
\* failure to open is not caught; a failing DELETE is caught and logged.
delete(rs, ticker, data_type, f) ==
    IF f = "connect" THEN Out(rs, None, StorageError)
    ELSE IF f = "query" THEN Out(rs, None, NoExc)
    ELSE Out(DeleteWhereKey(rs, _make_key(ticker, data_type)), None, NoExc)

get_filtering_expired(rs, ticker, data_type, f, fd) ==
    LET found == {r \in rs : r.key = _make_key(ticker, data_type)}
    IN  IF f = "connect" THEN Out(rs, None, StorageError)
        ELSE IF f = "query" \/ found = {} THEN Out(rs, None, NoExc)
        ELSE LET row == CHOOSE r \in found : TRUE
             IN  IF _is_expired(row.timestamp, row.expiry_seconds) \/ ~CanUnpickle(row.value)
                 THEN Out(rs, None, NoExc)
                 ELSE Out(rs, loads(row.value), NoExc)

get_ignoring_expiry(rs, ticker, data_type, f, fd) ==
    LET found == {r \in rs : r.key = _make_key(ticker, data_type)}
    IN  IF f = "connect" THEN Out(rs, None, StorageError)
        ELSE IF f = "query" \/ found = {} THEN Out(rs, None, NoExc)
        ELSE LET row == CHOOSE r \in found : TRUE
             IN  IF ~CanUnpickle(row.value) THEN Out(rs, None, NoExc)
                 ELSE Out(rs, loads(row.value), NoExc)

get_raising_on_corrupt(rs, ticker, data_type, f, fd) ==
    LET found == {r \in rs : r.key = _make_key(ticker, data_type)}
    IN  IF f = "connect" THEN Out(rs, None, StorageError)
        ELSE IF f = "query" \/ found = {} THEN Out(rs, None, NoExc)
        ELSE LET row == CHOOSE r \in found : TRUE
             IN  IF _is_expired(row.timestamp, row.expiry_seconds)
                 THEN Out(delete(rs, ticker, data_type, fd).rows, None, NoExc)
                 ELSE IF ~CanUnpickle(row.value)
                      THEN Out(rs, None, "pickle.UnpicklingError")
                      ELSE Out(rs, loads(row.value), NoExc)

get_refreshing_timestamp(rs, ticker, data_type, f, fd) ==
    LET found == {r \in rs : r.key = _make_key(ticker, data_type)}
    IN  IF f = "connect" THEN Out(rs, None, StorageError)
        ELSE IF f = "query" \/ found = {} THEN Out(rs, None, NoExc)
        ELSE LET row == CHOOSE r \in found : TRUE
             IN  IF _is_expired(row.timestamp, row.expiry_seconds)
                 THEN Out(delete(rs, ticker, data_type, fd).rows, None, NoExc)
                 ELSE IF ~CanUnpickle(row.value) THEN Out(rs, None, NoExc)
                 ELSE Out((rs \ {row}) \cup {[row EXCEPT !.timestamp = now]},
                          loads(row.value), NoExc)

\* Cache.get.  `fd` is the fault of the delete() an expired row triggers:
\* whatever delete raises is caught by get's own except clause.
get(rs, ticker, data_type, f, fd) ==
    LET key == _make_key(ticker, data_type)
        found == {r \in rs : r.key = key}
    IN  IF f = "connect" THEN Out(rs, None, StorageError)
        ELSE IF f = "query" THEN Out(rs, None, NoExc)
        ELSE IF found = {} THEN Out(rs, None, NoExc)
        ELSE LET row == CHOOSE r \in found : TRUE
             IN  IF _is_expired(row.timestamp, row.expiry_seconds)
                 THEN Out(delete(rs, ticker, data_type, fd).rows, None, NoExc)
                 ELSE IF ~CanUnpickle(row.value) THEN Out(rs, None, NoExc)
                 ELSE Out(rs, loads(row.value), NoExc)

set_dropping_on_failure(rs, ticker, data_type, data, expiry_seconds, f) ==
    LET key == _make_key(ticker, data_type)
        expiry == IF expiry_seconds = NoTTL
                  THEN _get_default_expiry(data_type)
                  ELSE expiry_seconds
    IN  IF ~CanPickle(data) THEN Out(DeleteWhereKey(rs, key), None, NoExc)
        ELSE IF f = "connect" THEN Out(rs, None, StorageError)
        ELSE IF f = "query" THEN Out(rs, None, NoExc)
        ELSE Out(InsertOrReplace(rs, Row(key, dumps(data), data_type, now, expiry)),
                 None, NoExc)

\* Column expiry_seconds is INTEGER, a signed 32-bit integer, while a Python
\* int is unbounded: a parameter above 2^31 - 1 makes the INSERT raise a
\* conversion error.  TooLarge stands for such an argument (2**31, say).
TooLarge == -2

FitsInteger(n) == n # TooLarge

\* Cache.set.  pickle.dumps runs first and its failure abandons the write;
\* the connection is opened before the try block; an exception of the INSERT
\* (a storage fault, an expiry the column cannot hold) is caught and logged.
set(rs, ticker, data_type, data, expiry_seconds, f) ==
    LET key == _make_key(ticker, data_type)
        expiry == IF expiry_seconds = NoTTL
                  THEN _get_default_expiry(data_type)
                  ELSE expiry_seconds
    IN  IF ~CanPickle(data) THEN Out(rs, None, NoExc)
        ELSE IF f = "connect" THEN Out(rs, None, StorageError)
        ELSE IF f = "query" THEN Out(rs, None, NoExc)
        ELSE IF ~FitsInteger(expiry) THEN Out(rs, None, NoExc)
        ELSE Out(InsertOrReplace(rs, Row(key, dumps(data), data_type, now, expiry)),
                 None, NoExc)

\* key LIKE pattern: '%' matches any run of characters, '_' any one character
RECURSIVE Like(_, _)
Like(s, p) ==
    IF p = <<>> THEN s = <<>>
    ELSE IF Head(p) = "%"
         THEN Like(s, Tail(p)) \/ (s # <<>> /\ Like(Tail(s), p))
         ELSE /\ s # <<>>
              /\ (Head(p) = "_" \/ Head(p) = Head(s))
              /\ Like(Tail(s), Tail(p))

clear_ticker_keeping_case(rs, ticker, f) ==
    LET pattern == ticker \o <<":", "%">>
    IN  IF f = "connect" THEN Out(rs, None, StorageError)
        ELSE IF f = "query" THEN Out(rs, None, NoExc)
        ELSE Out({r \in rs : ~Like(r.key, pattern)}, None, NoExc)

\* Cache.clear_ticker: DELETE FROM cache WHERE key LIKE f"{ticker.upper()}:%"
clear_ticker(rs, ticker, f) ==
    LET pattern == upper(ticker) \o <<":", "%">>
    IN  IF f = "connect" THEN Out(rs, None, StorageError)
        ELSE IF f = "query" THEN Out(rs, None, NoExc)
        ELSE Out({r \in rs : ~Like(r.key, pattern)}, None, NoExc)

\* Cache.clear_all: DELETE FROM cache
clear_all(rs, f) ==
    IF f = "connect" THEN Out(rs, None, StorageError)
    ELSE IF f = "query" THEN Out(rs, None, NoExc)
    ELSE Out({}, None, NoExc)

\* the rows _is_expired holds of
Expired(rs) == {r \in rs : _is_expired(r.timestamp, r.expiry_seconds)}

clear_expired_at_boundary(rs, f, done) ==
    IF f = "connect" THEN Out(rs, None, StorageError)
    ELSE IF f = "query" THEN Out(rs \ done, None, NoExc)
    ELSE Out({r \in rs : now < r.timestamp + r.expiry_seconds}, None, NoExc)

\* Cache.clear_expired: one DELETE per expired row, each its own transaction.
\* With f = "query" the SELECT fails when `done` is empty and otherwise a
\* DELETE fails after the rows of `done` are gone.  The method has no return
\* statement: the count is only logged.
clear_expired(rs, f, done) ==
    IF f = "connect" THEN Out(rs, None, StorageError)
    ELSE IF f = "query" THEN Out(rs \ done, None, NoExc)
    ELSE Out(rs \ Expired(rs), None, NoExc)

get_stats_sweeping(rs, f) ==
    IF f = "connect" THEN Out(rs, None, StorageError)
    ELSE IF f = "query" THEN Out(rs, PyObj("dict", <<>>, 0, 0), NoExc)
    ELSE LET total == Cardinality(rs)
             expired_count == Cardinality(Expired(rs))
         IN  [rows |-> rs \ Expired(rs), result |-> PyObj("dict", <<>>, 0, 1),
              raised |-> NoExc,
              stats |-> <<total, expired_count, total - expired_count>>]

\* Cache.get_stats: {} when a query fails
get_stats(rs, f) ==
    IF f = "connect" THEN Out(rs, None, StorageError)
    ELSE IF f = "query" THEN Out(rs, PyObj("dict", <<>>, 0, 0), NoExc)
    ELSE LET total == Cardinality(rs)
             expired_count == Cardinality(Expired(rs))
         IN  [rows |-> rs, result |-> PyObj("dict", <<>>, 0, 1), raised |-> NoExc,
              stats |-> <<total, expired_count, total - expired_count>>]

(***************************************************************************)
(* The calls the model makes.                                              *)
(***************************************************************************)
AAPL == <<"A", "A", "P", "L">>
aapl == <<"a", "a", "p", "l">>

Tickers == {AAPL, aapl}
DataTypes == {price, news}

\* the records a caller hands to set: two that differ, one pickle rejects
Fundamentals(v) == PyObj("Fundamentals", AAPL, 0, v)
Data == {Fundamentals(1), Fundamentals(2), Unpicklable}

\* the two records by name
Record1 == Fundamentals(1)
Record2 == Fundamentals(2)

\* the expiry_seconds a caller hands to set: omitted, or 0..MaxTTL
TTLs == {NoTTL} \cup (0..MaxTTL)

\* the record of a call: what was called with what, where the storage layer
\* failed (f in the call itself, fd in a call it made), and how it ended
\* the keyword arguments of a call that passes none
NoKwargs == <<>>

Call(op, ticker, data_type, data, expiry_seconds, f, fd, o) ==
    [op |-> op, ticker |-> ticker, data_type |-> data_type, data |-> data,
     expiry_seconds |-> expiry_seconds, f |-> f, fd |-> fd,
     result |-> o.result, raised |-> o.raised, stats |-> o.stats,
     had |-> FALSE, use_cache |-> TRUE, fs |-> "none", hit |-> FALSE,
     fetched |-> 0, wrote |-> FALSE, provider |-> [status |-> "none", v |-> 0],
     kwargs |-> NoKwargs]

\* whether the table holds a row under the key of (ticker, data_type)
HasRow(rs, ticker, data_type) == \E r \in rs : r.key = _make_key(ticker, data_type)

NoCall(op) == Call(op, <<>>, <<>>, None, NoTTL, "none", "none", Out({}, None, NoExc))

(***************************************************************************)
(* The history variable `written` records calls, not rows: for each pair   *)
(* (ticker ignoring case, data type) the arguments and time of the latest  *)
(* set that went through, until a delete, clear_ticker or clear_all names  *)
(* that pair.  It is what "written by set at time w with no later write or *)
(* removal" refers to.  `ttl` is the expiry that set resolved when it was   *)
(* called; `state` turns "corrupt" when the bytes of the row are damaged    *)
(* on disk, and `healed` marks a write that followed a get which found the *)
(* damaged row before its TTL had elapsed.                                 *)
(***************************************************************************)
Pair(ticker, data_type) == <<upper(ticker), data_type>>

Never ==
    [state |-> "never", data |-> None, at |-> 0, expiry_seconds |-> NoTTL,
     ttl |-> 0, healed |-> FALSE, kwargs |-> NoKwargs]

Entry(k) == IF k \in DOMAIN written THEN written[k] ELSE Never

NoteSet(k, data, expiry_seconds) ==
    [x \in DOMAIN written \cup {k} |->
        IF x = k
        THEN [state |-> "set", data |-> data, at |-> now,
              expiry_seconds |-> expiry_seconds,
              ttl |-> IF expiry_seconds = NoTTL THEN _get_default_expiry(k[2])
                                               ELSE expiry_seconds,
              healed |-> /\ Entry(k).state = "corrupt"
                         /\ now - Entry(k).at <= Entry(k).ttl
                         /\ last.op = "get" /\ last.result = None
                         /\ Pair(last.ticker, last.data_type) = k,
              kwargs |-> NoKwargs]
        ELSE written[x]]

NoteCorrupt(k) ==
    [x \in DOMAIN written \cup {k} |->
        IF x = k THEN [Entry(k) EXCEPT !.state = "corrupt"] ELSE written[x]]

NoteRemoved(ks) == [x \in DOMAIN written \ ks |-> written[x]]

(***************************************************************************)
(* Threads.  Every Cache method opens a connection of its own and each of  *)
(* its SQL statements is a transaction of its own, so between two          *)
(* statements of one call the statements of another thread's call can run. *)
(* A thread makes one call; pc says which statement comes next.            *)
(***************************************************************************)
Procs == {1, 2}

Idle ==
    [pc |-> "idle", op |-> "none", ticker |-> <<>>, data_type |-> <<>>,
     data |-> None, expiry_seconds |-> 0, timestamp |-> 0, pending |-> {},
     fetched |-> None, result |-> None, raised |-> NoExc, total |-> 0,
     stats |-> NoStats]

Init ==
    /\ procs = [p \in Procs |-> Idle]
    /\ rows = {}
    /\ now = 0
    /\ ticks = 0
    /\ calls = 0
    /\ last = NoCall("init")
    /\ written = <<>>
    /\ config = Config

\* time passes between two calls
Tick(d) ==
    /\ ticks < MaxTicks
    /\ now' = now + d
    /\ ticks' = ticks + 1
    /\ last' = NoCall("tick")
    /\ UNCHANGED <<procs, config, rows, calls, written>>

Get(ticker, data_type, f, fd) ==
    LET o == get(rows, ticker, data_type, f, fd)
    IN  /\ rows' = o.rows
        /\ last' = [Call("get", ticker, data_type, None, NoTTL, f, fd, o)
                        EXCEPT !.had = HasRow(rows, ticker, data_type)]
        /\ UNCHANGED <<procs, config, now, ticks, calls, written>>

Set(ticker, data_type, data, expiry_seconds, f) ==
    LET o == set(rows, ticker, data_type, data, expiry_seconds, f)
    IN  /\ rows' = o.rows
        /\ last' = [Call("set", ticker, data_type, data, expiry_seconds, f, "none", o)
                        EXCEPT !.had = HasRow(rows, ticker, data_type)]
        /\ written' = IF /\ f = "none" /\ CanPickle(data)
                         /\ FitsInteger(IF expiry_seconds = NoTTL
                                        THEN _get_default_expiry(data_type)
                                        ELSE expiry_seconds)
                      THEN NoteSet(Pair(ticker, data_type), data, expiry_seconds)
                      ELSE written
        /\ UNCHANGED <<procs, config, now, ticks, calls>>

Delete(ticker, data_type, f) ==
    LET o == delete(rows, ticker, data_type, f)
    IN  /\ rows' = o.rows
        /\ last' = [Call("delete", ticker, data_type, None, NoTTL, f, "none", o)
                        EXCEPT !.had = HasRow(rows, ticker, data_type)]
        /\ written' = NoteRemoved({Pair(ticker, data_type)})
        /\ UNCHANGED <<procs, config, now, ticks, calls>>

ClearTicker(ticker, f) ==
    LET o == clear_ticker(rows, ticker, f)
    IN  /\ rows' = o.rows
        /\ last' = [Call("clear_ticker", ticker, <<>>, None, NoTTL, f, "none", o)
                        EXCEPT !.had = (o.rows # rows)]
        /\ written' = NoteRemoved({k \in DOMAIN written : k[1] = upper(ticker)})
        /\ UNCHANGED <<procs, config, now, ticks, calls>>

ClearAll(f) ==
    LET o == clear_all(rows, f)
    IN  /\ rows' = o.rows
        /\ last' = Call("clear_all", <<>>, <<>>, None, NoTTL, f, "none", o)
        /\ written' = NoteRemoved(DOMAIN written)
        /\ UNCHANGED <<procs, config, now, ticks, calls>>

\* Cache(): another handle on the database file is constructed
NewCache(f) ==
    LET o == _ensure_schema(rows, f)
    IN  /\ rows' = o.rows
        /\ last' = Call("__init__", <<>>, <<>>, None, NoTTL, f, "none", o)
        /\ UNCHANGED <<procs, config, now, ticks, calls, written>>

\* the file is damaged behind the program's back: the value of a row is no
\* longer a pickle
Corrupt(ticker, data_type) ==
    \E r \in rows :
        /\ r.key = _make_key(ticker, data_type)
        /\ CanUnpickle(r.value)
        /\ rows' = (rows \ {r}) \cup {[r EXCEPT !.value = Garbage]}
        /\ last' = NoCall("corrupt")
        /\ written' = NoteCorrupt(Pair(ticker, data_type))
        /\ UNCHANGED <<procs, config, now, ticks, calls>>

\* the settings of class Config are changed (another deployment, a test)
Reconfigure(name, seconds) ==
    /\ config[name] # seconds
    /\ config' = [config EXCEPT ![name] = seconds]
    /\ last' = NoCall("reconfigure")
    /\ UNCHANGED <<procs, rows, now, ticks, calls, written>>

\* the rows a sweep can have deleted when one of its statements fails: none
\* (the SELECT failed) or some but not all of the expired ones
Partial(rs) == {done \in SUBSET Expired(rs) : done = {} \/ done # Expired(rs)}

ClearExpired(f) ==
    \E done \in IF f = "query" THEN Partial(rows) ELSE {{}} :
        LET o == clear_expired(rows, f, done)
        IN  /\ rows' = o.rows
            /\ last' = [Call("clear_expired", <<>>, <<>>, None, NoTTL, f, "none", o)
                            EXCEPT !.had = (o.rows # rows)]
            /\ UNCHANGED <<procs, config, now, ticks, calls, written>>

GetStats(f) ==
    LET o == get_stats(rows, f)
    IN  /\ rows' = o.rows
        /\ last' = Call("get_stats", <<>>, <<>>, None, NoTTL, f, "none", o)
        /\ UNCHANGED <<procs, config, now, ticks, calls, written>>

(***************************************************************************)
(* class DataFetcher.  `resp` is what the provider (yfinance) answers:     *)
(* status "error" (the request raises), "empty" (no data for the ticker)   *)
(* or "data" with content v.  Each method gives the value it returns and   *)
(* the exception it ends in.                                               *)
(***************************************************************************)
Response(status, v) == [status |-> status, v |-> v]

FOut(result, raised) == [result |-> result, raised |-> raised]

EmptyList == PyObj("list", <<>>, 0, 0)

\* DataFetcher.fetch_stock_price_history: an empty history raises ValueError,
\* and every exception is logged and re-raised
DataFetcher_fetch_stock_price_history(ticker, resp) ==
    IF resp.status = "error" THEN FOut(None, ProviderError)
    ELSE IF resp.status = "empty" THEN FOut(None, ValueError)
    ELSE FOut(PyObj("StockData", upper(ticker), now, resp.v), NoExc)

\* DataFetcher.fetch_fundamental_data: missing figures stay None in the record
DataFetcher_fetch_fundamental_data(ticker, resp) ==
    IF resp.status = "error" THEN FOut(None, ProviderError)
    ELSE FOut(PyObj("Fundamentals", upper(ticker), now, resp.v), NoExc)

\* DataFetcher.fetch_options_chain: no expirations gives an empty chain
DataFetcher_fetch_options_chain(ticker, resp) ==
    IF resp.status = "error" THEN FOut(None, ProviderError)
    ELSE FOut(PyObj("OptionsChain", upper(ticker), now, resp.v), NoExc)

\* DataFetcher.fetch_analyst_recommendations
DataFetcher_fetch_analyst_recommendations(ticker, resp) ==
    IF resp.status = "error" THEN FOut(None, ProviderError)
    ELSE FOut(PyObj("AnalystRatings", upper(ticker), now, resp.v), NoExc)

\* DataFetcher.fetch_news_headlines: the except clause returns [] instead of
\* raising; no news is [] too
DataFetcher_fetch_news_headlines(ticker, resp) ==
    IF resp.status = "error" THEN FOut(EmptyList, NoExc)
    ELSE IF resp.status = "empty" THEN FOut(EmptyList, NoExc)
    ELSE FOut(PyObj("list", upper(ticker), 0, resp.v), NoExc)

DataFetcher_fetch_all_data_propagating(ticker, resps) ==
    LET sd == DataFetcher_fetch_stock_price_history(ticker, resps[1])
        fu == DataFetcher_fetch_fundamental_data(ticker, resps[2])
        oc == DataFetcher_fetch_options_chain(ticker, resps[3])
        nw == DataFetcher_fetch_news_headlines(ticker, resps[4])
        ar == DataFetcher_fetch_analyst_recommendations(ticker, resps[5])
    IN  IF sd.raised # NoExc THEN FOut(None, sd.raised)
        ELSE FOut([PyObj("MarketData", upper(ticker), now, 0) EXCEPT
                      !.parts = <<sd.result, fu.result, oc.result, nw.result,
                                  ar.result>>],
                  NoExc)

\* DataFetcher.fetch_all_data: each category in its own try block; a category
\* that raised keeps its default (None, and [] for news)
DataFetcher_fetch_all_data(ticker, resps) ==
    LET sd == DataFetcher_fetch_stock_price_history(ticker, resps[1])
        fu == DataFetcher_fetch_fundamental_data(ticker, resps[2])
        oc == DataFetcher_fetch_options_chain(ticker, resps[3])
        nw == DataFetcher_fetch_news_headlines(ticker, resps[4])
        ar == DataFetcher_fetch_analyst_recommendations(ticker, resps[5])
    IN  FOut([PyObj("MarketData", upper(ticker), now, 0) EXCEPT
                 !.parts = <<sd.result, fu.result, oc.result,
                             IF nw.raised = NoExc THEN nw.result ELSE EmptyList,
                             ar.result>>],
             NoExc)

\* MarketData.is_complete: stock_data is not None and fundamentals is not None
is_complete(market) == market.parts[1] # None /\ market.parts[2] # None

\* a call of DataFetcher.fetch_all_data on the fetcher itself
DataFetcherFetchAllData(ticker, resps) ==
    LET o == DataFetcher_fetch_all_data(ticker, resps)
    IN  /\ last' = [Call("DataFetcher.fetch_all_data", ticker, market_data, None,
                         NoTTL, "none", "none", Out(rows, o.result, o.raised))
                        EXCEPT !.fetched = 1, !.provider = resps]
        /\ UNCHANGED <<procs, config, rows, now, ticks, calls, written>>

(***************************************************************************)
(* class CachedDataFetcher.  The six methods are one pattern over a data   *)
(* type tag and a fetcher method: get, return on a hit, else fetch, set,   *)
(* return.  `fetch` is the outcome of the fetcher method, used only when   *)
(* the method is reached; fg, fgd and fs are the storage faults during     *)
(* cache.get, the delete inside it, and cache.set.                         *)
(***************************************************************************)
WOut(rs, result, raised, hit, fetched, wrote) ==
    [rows |-> rs, result |-> result, raised |-> raised, stats |-> NoStats,
     hit |-> hit, fetched |-> fetched, wrote |-> wrote]

CachedFetch_always_fetching(rs, use_cache, ticker, data_type, fetch, fg, fgd, fs) ==
    LET g == IF use_cache THEN get(rs, ticker, data_type, fg, fgd)
                          ELSE Out(rs, None, NoExc)
        s == set(g.rows, ticker, data_type, fetch.result, NoTTL, fs)
    IN  IF g.raised # NoExc THEN WOut(g.rows, None, g.raised, FALSE, 0, FALSE)
        ELSE IF fetch.raised # NoExc THEN WOut(g.rows, None, fetch.raised, FALSE, 1, FALSE)
        ELSE IF ~use_cache THEN WOut(g.rows, fetch.result, NoExc, FALSE, 1, FALSE)
        ELSE IF s.raised # NoExc THEN WOut(s.rows, None, s.raised, FALSE, 1, TRUE)
        ELSE WOut(s.rows, fetch.result, NoExc, FALSE, 1, TRUE)

CachedFetch_caching_failures(rs, use_cache, ticker, data_type, fetch, fg, fgd, fs) ==
    LET g == IF use_cache THEN get(rs, ticker, data_type, fg, fgd)
                          ELSE Out(rs, None, NoExc)
        s == set(g.rows, ticker, data_type, fetch.result, NoTTL, fs)
    IN  IF g.raised # NoExc THEN WOut(g.rows, None, g.raised, FALSE, 0, FALSE)
        ELSE IF g.result # None THEN WOut(g.rows, g.result, NoExc, TRUE, 0, FALSE)
        ELSE IF ~use_cache THEN WOut(g.rows, fetch.result, fetch.raised, FALSE, 1, FALSE)
        ELSE IF s.raised # NoExc THEN WOut(s.rows, None, s.raised, FALSE, 1, TRUE)
        ELSE WOut(s.rows, fetch.result, fetch.raised, FALSE, 1, TRUE)

CachedFetch_bypass_writing(rs, use_cache, ticker, data_type, fetch, fg, fgd, fs) ==
    LET g == IF use_cache THEN get(rs, ticker, data_type, fg, fgd)
                          ELSE Out(rs, None, NoExc)
        s == set(g.rows, ticker, data_type, fetch.result, NoTTL, fs)
    IN  IF g.raised # NoExc THEN WOut(g.rows, None, g.raised, FALSE, 0, FALSE)
        ELSE IF g.result # None THEN WOut(g.rows, g.result, NoExc, TRUE, 0, FALSE)
        ELSE IF fetch.raised # NoExc THEN WOut(g.rows, None, fetch.raised, FALSE, 1, FALSE)
        ELSE IF s.raised # NoExc THEN WOut(s.rows, None, s.raised, FALSE, 1, TRUE)
        ELSE WOut(s.rows, fetch.result, NoExc, FALSE, 1, TRUE)

CachedFetch_skipping_incomplete(rs, use_cache, ticker, data_type, fetch, fg, fgd, fs) ==
    LET g == IF use_cache THEN get(rs, ticker, data_type, fg, fgd)
                          ELSE Out(rs, None, NoExc)
        s == set(g.rows, ticker, data_type, fetch.result, NoTTL, fs)
    IN  IF g.raised # NoExc THEN WOut(g.rows, None, g.raised, FALSE, 0, FALSE)
        ELSE IF g.result # None THEN WOut(g.rows, g.result, NoExc, TRUE, 0, FALSE)
        ELSE IF fetch.raised # NoExc THEN WOut(g.rows, None, fetch.raised, FALSE, 1, FALSE)
        ELSE IF ~use_cache THEN WOut(g.rows, fetch.result, NoExc, FALSE, 1, FALSE)
        ELSE IF data_type = market_data /\ ~is_complete(fetch.result)
             THEN WOut(g.rows, fetch.result, NoExc, FALSE, 1, FALSE)
        ELSE IF s.raised # NoExc THEN WOut(s.rows, None, s.raised, FALSE, 1, TRUE)
        ELSE WOut(s.rows, fetch.result, NoExc, FALSE, 1, TRUE)

CachedFetch(rs, use_cache, ticker, data_type, fetch, fg, fgd, fs) ==
    LET g == IF use_cache THEN get(rs, ticker, data_type, fg, fgd)
                          ELSE Out(rs, None, NoExc)
        s == set(g.rows, ticker, data_type, fetch.result, NoTTL, fs)
    IN  IF g.raised # NoExc THEN WOut(g.rows, None, g.raised, FALSE, 0, FALSE)
        ELSE IF g.result # None THEN WOut(g.rows, g.result, NoExc, TRUE, 0, FALSE)
        ELSE IF fetch.raised # NoExc THEN WOut(g.rows, None, fetch.raised, FALSE, 1, FALSE)
        ELSE IF ~use_cache THEN WOut(g.rows, fetch.result, NoExc, FALSE, 1, FALSE)
        ELSE IF s.raised # NoExc THEN WOut(s.rows, None, s.raised, FALSE, 1, TRUE)
        ELSE WOut(s.rows, fetch.result, NoExc, FALSE, 1, TRUE)

CacheTag_with_parameters(data_type, kwargs) == data_type \o kwargs

\* the category a wrapper method hands to cache.get and cache.set: a string
\* literal, whatever **kwargs holds
CacheTag(data_type, kwargs) == data_type

\* one call of a CachedDataFetcher method with keyword arguments `kwargs`,
\* which go to the DataFetcher method and nowhere else
WrappedKw(op, kwargs, use_cache, ticker, data_type, fetch, resp, fg, fgd, fs) ==
    LET tag == CacheTag(data_type, kwargs)
        o == CachedFetch(rows, use_cache, ticker, tag, fetch, fg, fgd, fs)
    IN  /\ calls + o.fetched <= MaxCalls
        /\ rows' = o.rows
        /\ calls' = calls + o.fetched
        /\ last' = [Call(op, ticker, data_type, None, NoTTL, fg, fgd, o) EXCEPT
                       !.had = HasRow(rows, ticker, tag),
                       !.use_cache = use_cache, !.hit = o.hit,
                       !.fetched = o.fetched, !.wrote = o.wrote,
                       !.fs = IF o.wrote THEN fs ELSE "none",
                       !.provider = IF o.fetched = 1 THEN resp ELSE Response("none", 0),
                       !.kwargs = kwargs]
        /\ written' = IF o.wrote /\ fs = "none" /\ o.raised = NoExc
                      THEN [NoteSet(Pair(ticker, tag), fetch.result, NoTTL)
                               EXCEPT ![Pair(ticker, tag)].kwargs = kwargs]
                      ELSE written
        /\ UNCHANGED <<procs, config, now, ticks>>

\* one call of a CachedDataFetcher method
Wrapped(op, use_cache, ticker, data_type, fetch, resp, fg, fgd, fs) ==
    WrappedKw(op, NoKwargs, use_cache, ticker, data_type, fetch, resp, fg, fgd, fs)

FetchStockPriceHistory(use_cache, ticker, resp, fg, fgd, fs) ==
    Wrapped("fetch_stock_price_history", use_cache, ticker, stock_data,
            DataFetcher_fetch_stock_price_history(ticker, resp), resp, fg, fgd, fs)

FetchFundamentalData(use_cache, ticker, resp, fg, fgd, fs) ==
    Wrapped("fetch_fundamental_data", use_cache, ticker, fundamentals,
            DataFetcher_fetch_fundamental_data(ticker, resp), resp, fg, fgd, fs)

FetchOptionsChain(use_cache, ticker, resp, fg, fgd, fs) ==
    Wrapped("fetch_options_chain", use_cache, ticker, options_chain,
            DataFetcher_fetch_options_chain(ticker, resp), resp, fg, fgd, fs)

FetchAnalystRecommendations(use_cache, ticker, resp, fg, fgd, fs) ==
    Wrapped("fetch_analyst_recommendations", use_cache, ticker, analyst_ratings,
            DataFetcher_fetch_analyst_recommendations(ticker, resp), resp, fg, fgd, fs)

FetchNewsHeadlines(use_cache, ticker, resp, fg, fgd, fs) ==
    Wrapped("fetch_news_headlines", use_cache, ticker, news,
            DataFetcher_fetch_news_headlines(ticker, resp), resp, fg, fgd, fs)

FetchAllData_under_stock_data(use_cache, ticker, resps, fg, fgd, fs) ==
    Wrapped("fetch_all_data", use_cache, ticker, stock_data,
            DataFetcher_fetch_all_data(ticker, resps), resps, fg, fgd, fs)

FetchAllData(use_cache, ticker, resps, fg, fgd, fs) ==
    Wrapped("fetch_all_data", use_cache, ticker, market_data,
            DataFetcher_fetch_all_data(ticker, resps), resps, fg, fgd, fs)

\* DataFetcher.fetch_news_headlines with max_items given: of the resp.v items
\* the provider holds, news[:max_items] keeps the first max_items
DataFetcher_fetch_news_headlines_max(ticker, max_items, resp) ==
    IF resp.status # "data" \/ resp.v = 0 THEN FOut(EmptyList, NoExc)
    ELSE FOut(PyObj("list", upper(ticker), 0,
                    IF max_items < resp.v THEN max_items ELSE resp.v), NoExc)

\* fetch_stock_price_history(ticker, period=..., interval=...): kwargs is
\* <<period, interval>> and resp the provider's answer to that request
FetchStockPriceHistoryKw(kwargs, use_cache, ticker, resp, fg, fgd, fs) ==
    WrappedKw("fetch_stock_price_history", kwargs, use_cache, ticker, stock_data,
              DataFetcher_fetch_stock_price_history(ticker, resp), resp, fg, fgd, fs)

\* fetch_news_headlines(ticker, max_items=...): kwargs is <<max_items>>
FetchNewsHeadlinesKw(kwargs, use_cache, ticker, resp, fg, fgd, fs) ==
    WrappedKw("fetch_news_headlines", kwargs, use_cache, ticker, news,
              DataFetcher_fetch_news_headlines_max(ticker, kwargs[1], resp), resp,
              fg, fgd, fs)

(***************************************************************************)
(* The same methods statement by statement, for threads that call them at  *)
(* the same time.  A step runs one SQL statement together with the Python  *)
(* around it that touches no shared state.                                 *)
(***************************************************************************)
\* the local variables of thread p change to loc
Goto(p, loc) == procs' = [procs EXCEPT ![p] = loc]

\* the thread has an INSERT for `key` ready to run
Inserting(q, key) ==
    /\ procs[q].pc = "set_insert"
    /\ _make_key(procs[q].ticker, procs[q].data_type) = key

\* the row the INSERT of a set call writes: the parameters of the statement
RowOf(l) ==
    Row(_make_key(l.ticker, l.data_type), dumps(l.data), l.data_type, l.timestamp,
        l.expiry_seconds)

Returned_rereading(l, rs) ==
    LET found == {r \in rs : r.key = _make_key(l.ticker, l.data_type)}
    IN  IF l.op = "set" \/ found = {} THEN None
        ELSE loads((CHOOSE r \in found : TRUE).value)

\* what the call returns once its set is over: set returns nothing, the
\* wrapper returns its local variable `data`
Returned(l, rs) == IF l.op = "set" THEN None ELSE l.data

\* Cache.set up to the INSERT: the key, the expiry, pickle.dumps, the
\* connection and the parameters of the INSERT, datetime.now() among them
SetBegin(p, ticker, data_type, data, expiry_seconds) ==
    /\ procs[p].pc = "idle"
    /\ Goto(p, [Idle EXCEPT
                   !.op = "set", !.ticker = ticker, !.data_type = data_type,
                   !.data = data,
                   !.expiry_seconds = IF expiry_seconds = NoTTL
                                      THEN _get_default_expiry(data_type)
                                      ELSE expiry_seconds,
                   !.timestamp = now,
                   !.pc = IF CanPickle(data) THEN "set_insert" ELSE "done"])
    /\ UNCHANGED <<rows, now, ticks, calls, last, written, config>>

\* the INSERT OR REPLACE of Cache.set and the return.  Of two transactions
\* that write one row at the same time the database aborts one (f = "query");
\* set catches and logs the exception.
SetInsert(p, f) ==
    LET l == procs[p]
        row == RowOf(l)
    IN  /\ l.pc = "set_insert"
        /\ f = "query" => \E q \in Procs \ {p} : Inserting(q, row.key)
        /\ rows' = IF f = "none" /\ FitsInteger(l.expiry_seconds)
                   THEN InsertOrReplace(rows, row)
                   ELSE rows
        /\ Goto(p, [l EXCEPT !.pc = "done", !.result = Returned(l, rows')])
        /\ UNCHANGED <<now, ticks, calls, last, written, config>>

\* the SELECT of Cache.get and what follows it up to the next statement.
\* `op` is "get" for a caller of Cache.get and the wrapper method's name for
\* a get made by CachedDataFetcher, which goes on to fetch after a miss.
GetSelect(p, ticker, data_type, op) ==
    LET found == {r \in rows : r.key = _make_key(ticker, data_type)}
        row == CHOOSE r \in found : TRUE
        l == [Idle EXCEPT !.op = op, !.ticker = ticker, !.data_type = data_type]
        miss == [l EXCEPT !.pc = IF op = "get" THEN "done" ELSE "fetch"]
    IN  /\ procs[p].pc = "idle"
        /\ Goto(p, IF found = {} THEN miss
                   ELSE IF _is_expired(row.timestamp, row.expiry_seconds)
                   THEN [l EXCEPT !.pc = "get_delete"]
                   ELSE IF ~CanUnpickle(row.value) THEN miss
                   ELSE [l EXCEPT !.pc = "done", !.result = loads(row.value)])
        /\ UNCHANGED <<rows, now, ticks, calls, last, written, config>>

\* self.delete(ticker, data_type) of a get that found its row expired
GetDelete(p) ==
    LET l == procs[p]
    IN  /\ l.pc = "get_delete"
        /\ rows' = delete(rows, l.ticker, l.data_type, "none").rows
        /\ Goto(p, [l EXCEPT !.pc = IF l.op = "get" THEN "done" ELSE "fetch"])
        /\ UNCHANGED <<now, ticks, calls, last, written, config>>

\* CachedDataFetcher.fetch_stock_price_history after its miss: the fetch,
\* and cache.set up to its INSERT
Fetch(p, resp) ==
    LET l == procs[p]
        o == DataFetcher_fetch_stock_price_history(l.ticker, resp)
    IN  /\ l.pc = "fetch"
        /\ calls < MaxCalls
        /\ calls' = calls + 1
        /\ Goto(p, IF o.raised # NoExc
                   THEN [l EXCEPT !.pc = "done", !.raised = o.raised]
                   ELSE [l EXCEPT !.pc = "set_insert", !.data = o.result,
                                  !.fetched = o.result,
                                  !.expiry_seconds = _get_default_expiry(l.data_type),
                                  !.timestamp = now])
        /\ UNCHANGED <<rows, now, ticks, last, written, config>>

\* the SELECT of Cache.clear_expired: fetchall() holds the rows as they were
SweepSelect(p) ==
    LET result == {<<r.key, r.timestamp, r.expiry_seconds>> : r \in rows}
    IN  /\ procs[p].pc = "idle"
        /\ Goto(p, [Idle EXCEPT !.op = "clear_expired", !.pending = result,
                       !.pc = IF result = {} THEN "done" ELSE "sweep_loop"])
        /\ UNCHANGED <<rows, now, ticks, calls, last, written, config>>

\* one turn of the loop of Cache.clear_expired over the fetched rows
SweepNext(p) ==
    LET l == procs[p]
    IN  /\ l.pc = "sweep_loop"
        /\ \E e \in l.pending :
              /\ rows' = IF _is_expired(e[2], e[3]) THEN DeleteWhereKey(rows, e[1])
                         ELSE rows
              /\ Goto(p, [l EXCEPT !.pending = l.pending \ {e},
                             !.pc = IF l.pending = {e} THEN "done" ELSE "sweep_loop"])
        /\ UNCHANGED <<now, ticks, calls, last, written, config>>

\* the first SELECT of Cache.get_stats: COUNT(*)
StatsCount(p) ==
    /\ procs[p].pc = "idle"
    /\ Goto(p, [Idle EXCEPT !.op = "get_stats", !.pc = "stats_select",
                   !.total = Cardinality(rows)])
    /\ UNCHANGED <<rows, now, ticks, calls, last, written, config>>

\* the second SELECT of Cache.get_stats, a transaction of its own, the count
\* of the fetched rows _is_expired holds of, and the dictionary returned
StatsSelect(p) ==
    LET l == procs[p]
        expired_count == Cardinality(Expired(rows))
    IN  /\ l.pc = "stats_select"
        /\ Goto(p, [l EXCEPT !.pc = "done", !.result = PyObj("dict", <<>>, 0, 1),
                       !.stats = <<l.total, expired_count, l.total - expired_count>>])
        /\ UNCHANGED <<rows, now, ticks, calls, last, written, config>>

\* Cache.delete: its one statement
DeleteStep(p, ticker, data_type) ==
    /\ procs[p].pc = "idle"
    /\ rows' = delete(rows, ticker, data_type, "none").rows
    /\ Goto(p, [Idle EXCEPT !.op = "delete", !.ticker = ticker,
                   !.data_type = data_type, !.pc = "done"])
    /\ UNCHANGED <<now, ticks, calls, last, written, config>>

\* no thread is inside a call
AllIdle == \A p \in Procs : procs[p].pc = "idle"

\* the ticker thread p names: the same symbol in another case per thread
TickerOfThread(p) == IF p = 1 THEN AAPL ELSE aapl

(***************************************************************************)
(* Spec: a caller of a healthy store, one call at a time, with the clock   *)
(* advancing a second at a time between calls.                             *)
(***************************************************************************)
Next ==
    \/ Tick(1)
    \/ \E t \in Tickers, c \in DataTypes : Get(t, c, "none", "none")
    \/ \E t \in Tickers, c \in DataTypes, d \in Data \ {Unpicklable}, ttl \in TTLs :
          Set(t, c, d, ttl, "none")
    \/ \E t \in Tickers, c \in DataTypes : Delete(t, c, "none")
    \/ \E t \in Tickers : ClearTicker(t, "none")
    \/ ClearAll("none")
    \/ ClearExpired("none")
    \/ GetStats("none")

Spec == Init /\ [][Next]_vars

(***************************************************************************)
(* SpecFaults: the same calls on one key, with the storage layer free to   *)
(* fail in any call and the caller free to hand set an object that cannot  *)
(* be pickled.                                                             *)
(***************************************************************************)
NextFaults ==
    \/ Tick(1)
    \/ \E f \in Faults, fd \in Faults : Get(AAPL, price, f, fd)
    \/ \E d \in {Fundamentals(1), Unpicklable}, ttl \in {NoTTL, 0, MaxTTL}, f \in Faults :
          Set(AAPL, price, d, ttl, f)
    \/ \E f \in Faults : Delete(AAPL, price, f)
    \/ \E f \in Faults : ClearTicker(AAPL, f)
    \/ \E f \in Faults : ClearAll(f)
    \/ \E f \in Faults : ClearExpired(f)
    \/ \E f \in Faults : GetStats(f)

SpecFaults == Init /\ [][NextFaults]_vars

(***************************************************************************)
(* SpecWrapper: a caller of CachedDataFetcher (use_cache true) over the    *)
(* DataFetcher and a healthy store, asking for one data category at a      *)
(* time: a request for a category waits until no row and no recorded write *)
(* of another category is left.  The provider answers each request as it   *)
(* likes, and the clock advances by one of the default TTLs.               *)
(***************************************************************************)
Responses == {Response("error", 0), Response("empty", 0), Response("data", 1),
              Response("data", 2)}

\* the clock advances by one of the default TTLs
TickSteps == {PRICE_CACHE_EXPIRY, NEWS_CACHE_EXPIRY, FUNDAMENTAL_CACHE_EXPIRY}

\* nothing of another data type is in the table or in the history
Only(data_type) ==
    /\ \A r \in rows : r.data_type = data_type
    /\ \A k \in DOMAIN written : k[2] = data_type

NextWrapper ==
    \/ \E d \in TickSteps : Tick(d)
    \/ \E t \in Tickers, r \in Responses :
          Only(stock_data) /\ FetchStockPriceHistory(TRUE, t, r, "none", "none", "none")
    \/ \E t \in Tickers, r \in Responses :
          Only(fundamentals) /\ FetchFundamentalData(TRUE, t, r, "none", "none", "none")
    \/ \E t \in Tickers, r \in Responses :
          Only(options_chain) /\ FetchOptionsChain(TRUE, t, r, "none", "none", "none")
    \/ \E t \in Tickers, r \in Responses :
          Only(analyst_ratings)
          /\ FetchAnalystRecommendations(TRUE, t, r, "none", "none", "none")
    \/ \E t \in Tickers, r \in Responses :
          Only(news) /\ FetchNewsHeadlines(TRUE, t, r, "none", "none", "none")

SpecWrapper == Init /\ [][NextWrapper]_vars

(***************************************************************************)
(* SpecWrapperFaults: requests for price history and news through the      *)
(* wrapper, with the storage layer free to fail once in a request: in      *)
(* cache.get, in the delete inside it, or in cache.set.                    *)
(***************************************************************************)
FaultCombos ==
    {<<f, "none", "none">> : f \in Faults}
    \cup {<<"none", f, "none">> : f \in Faults}
    \cup {<<"none", "none", f>> : f \in Faults}

NextWrapperFaults ==
    \/ Tick(PRICE_CACHE_EXPIRY)
    \/ \E r \in {Response("error", 0), Response("data", 1)}, f \in FaultCombos :
          FetchStockPriceHistory(TRUE, AAPL, r, f[1], f[2], f[3])
    \/ \E r \in {Response("error", 0), Response("data", 1)}, f \in FaultCombos :
          FetchNewsHeadlines(TRUE, AAPL, r, f[1], f[2], f[3])

SpecWrapperFaults == Init /\ [][NextWrapperFaults]_vars

(***************************************************************************)
(* SpecCorrupt: a caller of a healthy store on one key, while the value of *)
(* its row can be damaged in the database file between two calls.          *)
(***************************************************************************)
NextCorrupt ==
    \/ Tick(1)
    \/ \E t \in Tickers : Get(t, price, "none", "none")
    \/ \E d \in Data \ {Unpicklable}, ttl \in {NoTTL, MaxTTL} :
          Set(AAPL, price, d, ttl, "none")
    \/ Corrupt(AAPL, price)
    \/ GetStats("none")

SpecCorrupt == Init /\ [][NextCorrupt]_vars

(***************************************************************************)
(* SpecFetchAll: a caller of DataFetcher.fetch_all_data while the provider *)
(* answers each of the five requests as it likes.                          *)
(***************************************************************************)
\* the answers to the five requests of one bundle: price history, fundamental
\* data, options chain, news, analyst recommendations
BundleResponses ==
    {<<sd, fu, oc, nw, ar>> :
        sd \in {Response("error", 0), Response("empty", 0), Response("data", 1)},
        fu \in {Response("error", 0), Response("data", 1)},
        oc \in {Response("error", 0), Response("data", 1)},
        nw \in {Response("error", 0), Response("data", 1)},
        ar \in {Response("error", 0), Response("data", 1)}}

NextFetchAll ==
    \/ Tick(1)
    \/ \E t \in Tickers, rs \in BundleResponses : DataFetcherFetchAllData(t, rs)

SpecFetchAll == Init /\ [][NextFetchAll]_vars

(***************************************************************************)
(* SpecBundle: two CachedDataFetcher objects over one healthy store, one   *)
(* built with use_cache true and one with use_cache false, asked for the   *)
(* bundle, the price history and the news of one ticker.  The object that  *)
(* bypasses the cache is also called while the store is unreachable.       *)
(***************************************************************************)
\* the answers to a bundle's requests in which the price history and the
\* options chain may fail
WrapperBundles ==
    {rs \in BundleResponses :
        /\ rs[1].status # "empty"
        /\ rs[2].status = "data" /\ rs[4].status = "data" /\ rs[5].status = "data"}

\* where the storage layer stands during a call of each of the two objects
StoreFaults(use_cache) == IF use_cache THEN {"none"} ELSE Faults

NextBundle ==
    \/ Tick(PRICE_CACHE_EXPIRY)
    \/ \E u \in BOOLEAN, rs \in WrapperBundles, f \in Faults :
          f \in StoreFaults(u) /\ FetchAllData(u, AAPL, rs, f, "none", f)
    \/ \E u \in BOOLEAN, r \in {Response("error", 0), Response("data", 1)}, f \in Faults :
          f \in StoreFaults(u) /\ FetchStockPriceHistory(u, AAPL, r, f, "none", f)
    \/ \E u \in BOOLEAN, r \in {Response("error", 0), Response("data", 1)}, f \in Faults :
          f \in StoreFaults(u) /\ FetchNewsHeadlines(u, AAPL, r, f, "none", f)

SpecBundle == Init /\ [][NextBundle]_vars

(***************************************************************************)
(* SpecTTL: a caller of a healthy store writing one ticker under every     *)
(* data type the expiry map names and under two it does not name, with the *)
(* expiry omitted, zero, positive, or beyond the INTEGER column.  The      *)
(* table holds one data type at a time.                                    *)
(***************************************************************************)
\* a data type the expiry map does not name
earnings == <<"e", "a", "r", "n", "i", "n", "g", "s">>

Categories ==
    {price, stock_data, fundamental, fundamentals, options, options_chain, news,
     analyst_ratings, market_data, earnings, upper(price)}

NextTTL ==
    \/ Tick(1)
    \/ \E c \in Categories : Get(AAPL, c, "none", "none")
    \/ \E c \in Categories, ttl \in {NoTTL, 0, MaxTTL, TooLarge} :
          Only(c) /\ Set(AAPL, c, Record1, ttl, "none")
    \/ ClearAll("none")

SpecTTL == Init /\ [][NextTTL]_vars

(***************************************************************************)
(* SpecReconfig: a caller of a healthy store on one key, while the price   *)
(* expiry of class Config is changed between calls and the clock advances  *)
(* by a second or by the price expiry the module defines.                  *)
(***************************************************************************)
NextReconfig ==
    \/ \E d \in {1, PRICE_CACHE_EXPIRY} : Tick(d)
    \/ Get(AAPL, price, "none", "none")
    \/ \E ttl \in {NoTTL, MaxTTL} : Set(AAPL, price, Record1, ttl, "none")
    \/ \E seconds \in {1, PRICE_CACHE_EXPIRY, FUNDAMENTAL_CACHE_EXPIRY} :
          Reconfigure("PRICE_CACHE_EXPIRY", seconds)
    \/ ClearExpired("none")
    \/ GetStats("none")

SpecReconfig == Init /\ [][NextReconfig]_vars

(***************************************************************************)
(* SpecTickers: a caller of a healthy store with several tickers, one of   *)
(* them spelled with an underscore, writing, reading and clearing them.    *)
(***************************************************************************)
AB == <<"A", "B">>
ab == <<"a", "b">>
A_ == <<"A", "_">>

TickerSet == {AB, ab, A_}

NextTickers ==
    \/ Tick(1)
    \/ \E t \in TickerSet, c \in DataTypes : Get(t, c, "none", "none")
    \/ \E t \in TickerSet, c \in DataTypes : Set(t, c, Record1, NoTTL, "none")
    \/ \E t \in TickerSet : ClearTicker(t, "none")

SpecTickers == Init /\ [][NextTickers]_vars

(***************************************************************************)
(* SpecHandles: callers of a healthy store on one ticker, constructing new *)
(* Cache handles on the same database file between their calls.            *)
(***************************************************************************)
NextHandles ==
    \/ Tick(1)
    \/ NewCache("none")
    \/ \E t \in Tickers, c \in DataTypes : Get(t, c, "none", "none")
    \/ \E c \in DataTypes, ttl \in {NoTTL, MaxTTL} :
          Set(AAPL, c, Record1, ttl, "none")
    \/ \E c \in DataTypes : Delete(AAPL, c, "none")

SpecHandles == Init /\ [][NextHandles]_vars

(***************************************************************************)
(* SpecRaceSet: two threads, each making one set call for the price of the *)
(* same ticker, with the clock advancing between their statements.         *)
(***************************************************************************)
NextRaceSet ==
    \/ Tick(1)
    \/ \E p \in Procs, d \in Data \ {Unpicklable}, ttl \in {NoTTL, MaxTTL} :
          SetBegin(p, TickerOfThread(p), price, d, ttl)
    \/ \E p \in Procs, f \in {"none", "query"} : SetInsert(p, f)

SpecRaceSet == Init /\ [][NextRaceSet]_vars

(***************************************************************************)
(* SpecRaceFetch: two threads, each making one call of the wrapper's       *)
(* fetch_stock_price_history for the same ticker, over a table that is     *)
(* empty or holds a row a caller stored before the threads started.        *)
(***************************************************************************)
Seed == PyObj("StockData", AAPL, 0, 0)

NextRaceFetch ==
    \/ Tick(1)
    \/ AllIdle /\ rows = {} /\ Set(AAPL, stock_data, Seed, 0, "none")
    \/ \E p \in Procs :
          GetSelect(p, TickerOfThread(p), stock_data, "fetch_stock_price_history")
    \/ \E p \in Procs : GetDelete(p)
    \/ \E p \in Procs, resp \in Responses : Fetch(p, resp)
    \/ \E p \in Procs, f \in {"none", "query"} : SetInsert(p, f)

SpecRaceFetch == Init /\ [][NextRaceFetch]_vars

(***************************************************************************)
(* SpecRaceExpiry: a row stored with expiry 0 before the threads start,    *)
(* then two threads, each making one call: a get, a sweep or a set on the  *)
(* price of the same ticker.                                               *)
(***************************************************************************)
NextRaceExpiry ==
    \/ Tick(1)
    \/ AllIdle /\ rows = {} /\ Set(AAPL, price, Record1, 0, "none")
    \/ \E p \in Procs : GetSelect(p, TickerOfThread(p), price, "get")
    \/ \E p \in Procs : GetDelete(p)
    \/ \E p \in Procs : SweepSelect(p)
    \/ \E p \in Procs : SweepNext(p)
    \/ \E p \in Procs : SetBegin(p, TickerOfThread(p), price, Record2, NoTTL)
    \/ \E p \in Procs : SetInsert(p, "none")

SpecRaceExpiry == Init /\ [][NextRaceExpiry]_vars

(***************************************************************************)
(* SpecIncomplete: a caching CachedDataFetcher over a healthy store asked  *)
(* for the bundle of one ticker, in either case, while the provider fails  *)
(* every request, one of the two the completeness check looks at, or none. *)
(***************************************************************************)
\* a bundle's answers: everything fails, the price history or the
\* fundamentals fail alone, nothing fails
IncompleteBundles ==
    {rs \in BundleResponses :
        /\ rs[1].status # "empty"
        /\ rs[3] = rs[4] /\ rs[4] = rs[5]
        /\ rs[3].status = "error" => rs[1].status = "error" /\ rs[2].status = "error"}

\* a second within the TTL of a bundle, or the whole of it
BundleTicks == {1, PRICE_CACHE_EXPIRY}

NextIncomplete ==
    \/ \E d \in BundleTicks : Tick(d)
    \/ \E t \in Tickers, rs \in IncompleteBundles :
          FetchAllData(TRUE, t, rs, "none", "none", "none")

SpecIncomplete == Init /\ [][NextIncomplete]_vars

(***************************************************************************)
(* SpecParams: a caching CachedDataFetcher over a healthy store asked for  *)
(* the price history and the news of one ticker with keyword arguments     *)
(* that vary from call to call.                                            *)
(***************************************************************************)
\* <<period, interval>> : the defaults, and one day minute by minute
PriceKwargs == {<<"1y", "1d">>, <<"1d", "1m">>}

\* <<max_items>> : the default, and a single headline
NewsKwargs == {<<20>>, <<1>>}

NextParams ==
    \/ \E d \in BundleTicks : Tick(d)
    \/ \E kw \in PriceKwargs, resp \in Responses :
          FetchStockPriceHistoryKw(kw, TRUE, AAPL, resp, "none", "none", "none")
    \/ \E kw \in NewsKwargs, resp \in Responses :
          FetchNewsHeadlinesKw(kw, TRUE, AAPL, resp, "none", "none", "none")

SpecParams == Init /\ [][NextParams]_vars

(***************************************************************************)
(* SpecRaceStats: over a table that is empty or holds one row stored       *)
(* before the threads start, two threads, each making one call: get_stats, *)
(* a set with expiry 0 or the default, a delete or a sweep.                *)
(***************************************************************************)
NextRaceStats ==
    \/ Tick(1)
    \/ AllIdle /\ rows = {} /\ Set(AAPL, news, Record1, 0, "none")
    \/ \E p \in Procs : StatsCount(p)
    \/ \E p \in Procs : StatsSelect(p)
    \/ \E p \in Procs, ttl \in {0, NoTTL} :
          SetBegin(p, TickerOfThread(p), price, Record2, ttl)
    \/ \E p \in Procs : SetInsert(p, "none")
    \/ \E p \in Procs : DeleteStep(p, TickerOfThread(p), news)
    \/ \E p \in Procs : SweepSelect(p)
    \/ \E p \in Procs : SweepNext(p)

SpecRaceStats == Init /\ [][NextRaceStats]_vars

(***************************************************************************)
(* SpecKeys: a caller of a healthy store whose tickers and categories may  *)
(* hold the ':' that _make_key puts between them (a share class written   *)
(* "A:B", a caller-supplied category "B:c").                               *)
(***************************************************************************)
KeyTickers == {<<"A">>, <<"a", ":", "b">>}

KeyCategories == {<<"c">>, <<"B", ":", "c">>}

NextKeys ==
    \/ Tick(1)
    \/ \E t \in KeyTickers, c \in KeyCategories : Get(t, c, "none", "none")
    \/ \E t \in KeyTickers, c \in KeyCategories : Set(t, c, Record1, NoTTL, "none")

SpecKeys == Init /\ [][NextKeys]_vars

(***************************************************************************)
(* Properties of the store.                                                *)
(***************************************************************************)
\* what `written` holds for the pair the last call named
LastEntry == Entry(Pair(last.ticker, last.data_type))

\* the rows under the key of the call recorded in c
RowsOf(rs, c) == {r \in rs : r.key = _make_key(c.ticker, c.data_type)}

\* the expiry_seconds a set call resolves to
Resolved(expiry_seconds, data_type) ==
    IF expiry_seconds = NoTTL THEN _get_default_expiry(data_type) ELSE expiry_seconds

\* C1  TTL correctness: a get on a healthy store, for an entry written by
\* set(ticker, category, r, ttl_seconds=T) at time w and neither rewritten nor
\* removed since, returns r when now - w < T, absent when now - w > T, and
\* at now - w = T always r (the entry is still valid at the boundary).
C1_TTLCorrectness ==
    (/\ last.op = "get"
     /\ last.f = "none"
     /\ LastEntry.state = "set"
     /\ LastEntry.expiry_seconds # NoTTL)
    => LET T == LastEntry.expiry_seconds
           elapsed == now - LastEntry.at
       IN  /\ last.raised = NoExc
           /\ elapsed < T => last.result = LastEntry.data
           /\ elapsed > T => last.result = None
           /\ elapsed = T => last.result = LastEntry.data

\* a get exactly T > 0 seconds after the write, which returned the record
C1_Witness ==
    /\ last.op = "get"
    /\ LastEntry.state = "set"
    /\ LastEntry.expiry_seconds >= 1
    /\ now - LastEntry.at = LastEntry.expiry_seconds
    /\ last.result = LastEntry.data

\* C2  Store round trip: a get issued after a set that went through, before
\* the TTL of that set (explicit or the data type's default) has elapsed and
\* with no write or removal of the key in between, returns a record equal to
\* the one handed to set.
C2_StoreRoundTrip ==
    (/\ last.op = "get"
     /\ last.f = "none"
     /\ LastEntry.state = "set"
     /\ now - LastEntry.at < Resolved(LastEntry.expiry_seconds, last.data_type))
    => /\ last.raised = NoExc
       /\ last.result.kind = LastEntry.data.kind
       /\ last.result.ticker = LastEntry.data.ticker
       /\ last.result.timestamp = LastEntry.data.timestamp
       /\ last.result.v = LastEntry.data.v
       /\ last.result.parts = LastEntry.data.parts

\* a get one second or more after a set with the default TTL, returning the record
C2_Witness ==
    /\ last.op = "get"
    /\ LastEntry.state = "set"
    /\ LastEntry.expiry_seconds = NoTTL
    /\ now > LastEntry.at
    /\ last.result = LastEntry.data
    /\ last.result.v # 0

\* C9  Lazy deletion on expired read: a get on a healthy store that finds an
\* expired row under its key returns absent and leaves the table exactly as
\* delete(ticker, category) would, so that the row is gone and a following
\* get_stats counts one entry fewer.
C9_LazyDeletion ==
    [][\A r \in rows :
          (/\ last'.op = "get"
           /\ last' # last
           /\ last'.f = "none" /\ last'.fd = "none"
           /\ r.key = _make_key(last'.ticker, last'.data_type)
           /\ now > r.timestamp + r.expiry_seconds)
          => /\ last'.result = None
             /\ last'.raised = NoExc
             /\ r \notin rows'
             /\ rows' = delete(rows, last'.ticker, last'.data_type, "none").rows
             /\ ~HasRow(rows', last'.ticker, last'.data_type)
             /\ get_stats(rows', "none").stats[1] = Cardinality(rows) - 1]_vars

\* a get that found the entry written earlier expired: absent, and the row gone
C9_Witness ==
    /\ last.op = "get"
    /\ last.had
    /\ LastEntry.state = "set"
    /\ now > LastEntry.at + Resolved(LastEntry.expiry_seconds, last.data_type)
    /\ last.result = None
    /\ ~HasRow(rows, last.ticker, last.data_type)

\* C10  One row per key, replaced whole: the table never holds two rows with
\* one key, and after a set that went through the only row under its key is
\* the row of that call: its pickled record, its data type, the clock's
\* reading at the call and the expiry it resolved.
C10_OneRowPerKey ==
    /\ \A r1 \in rows, r2 \in rows : r1.key = r2.key => r1 = r2
    /\ (last.op = "set" /\ last.f = "none" /\ CanPickle(last.data))
       => \E r \in rows :
            /\ {x \in rows : x.key = _make_key(last.ticker, last.data_type)} = {r}
            /\ CanUnpickle(r.value) /\ loads(r.value) = last.data
            /\ r.data_type = last.data_type
            /\ r.timestamp = now
            /\ r.expiry_seconds = Resolved(last.expiry_seconds, last.data_type)

\* a set, later than time 0, on a key that already had a row
C10_Witness ==
    /\ last.op = "set"
    /\ last.had
    /\ now > 0
    /\ \E r \in rows : r.key = _make_key(last.ticker, last.data_type) /\ r.timestamp = now

\* C11  Key isolation and case normalization: every pair (ticker, category)
\* whose latest write is still within its TTL is read back, under either
\* spelling of the ticker, as the record of that write, whatever was written
\* under the ticker's other categories since; and a get call returns exactly
\* that record.
C11_KeyIsolation ==
    /\ \A k \in DOMAIN written : \A t \in Tickers :
          (/\ upper(t) = k[1]
           /\ written[k].state = "set"
           /\ now - written[k].at <= written[k].ttl)
          => /\ get(rows, t, k[2], "none", "none").result = written[k].data
             /\ get(rows, t, k[2], "none", "none").raised = NoExc
             /\ get(rows, t, k[2], "none", "none").rows = rows
    /\ (/\ last.op = "get"
        /\ LastEntry.state = "set"
        /\ now - LastEntry.at <= LastEntry.ttl)
       => last.result = LastEntry.data

\* get("aapl", "price") returns the price record although a different record
\* was written under news later
C11_Witness ==
    /\ last.op = "get"
    /\ last.ticker = aapl
    /\ last.data_type = price
    /\ Entry(<<AAPL, price>>).state = "set"
    /\ Entry(<<AAPL, news>>).state = "set"
    /\ Entry(<<AAPL, news>>).at > Entry(<<AAPL, price>>).at
    /\ Entry(<<AAPL, news>>).data # Entry(<<AAPL, price>>).data
    /\ last.result = Entry(<<AAPL, price>>).data
    /\ Cardinality(rows) = 2

\* C12  Corrupt value fails open: a get that finds under its key a row not
\* yet expired whose value cannot be unpickled returns absent and raises
\* nothing; a set on that key afterwards stores its record as any set does,
\* and a get within the TTL of that set returns the record.
C12_CorruptFailsOpen ==
    /\ (/\ last.op = "get"
        /\ LastEntry.state = "corrupt"
        /\ now - LastEntry.at <= LastEntry.ttl)
       => /\ last.result = None
          /\ last.raised = NoExc
    /\ (/\ last.op = "set"
        /\ LastEntry.healed)
       => /\ last.raised = NoExc
          /\ \E r \in rows :
                /\ RowsOf(rows, last) = {r}
                /\ CanUnpickle(r.value)
                /\ loads(r.value) = last.data
                /\ r.timestamp = now
    /\ (/\ last.op = "get"
        /\ LastEntry.state = "set"
        /\ LastEntry.healed
        /\ now - LastEntry.at <= LastEntry.ttl)
       => /\ last.result = LastEntry.data
          /\ last.raised = NoExc

\* a get returning the record of a set that followed an absent answer on the
\* damaged row
C12_Witness ==
    /\ last.op = "get"
    /\ LastEntry.state = "set"
    /\ LastEntry.healed
    /\ last.result = LastEntry.data
    /\ last.result # None

\* C17  Explicit TTL always wins: after a set on a healthy store with an
\* explicit integer expiry_seconds, zero included, the row under the key is
\* the row of that call and its expiry_seconds is the argument.
C17_ExplicitTTLWins ==
    (/\ last.op = "set"
     /\ last.f = "none"
     /\ CanPickle(last.data)
     /\ last.expiry_seconds # NoTTL)
    => \E r \in RowsOf(rows, last) :
          /\ r.timestamp = now
          /\ loads(r.value) = last.data
          /\ r.expiry_seconds = last.expiry_seconds

\* C18  Default TTL by category: after a set without expiry_seconds the row
\* under the key has expiry 15 minutes for price, stock_data, market_data,
\* options and options_chain, 24 hours for fundamental, fundamentals and
\* analyst_ratings, 1 hour for news, and 24 hours for any other data type.
C18_DefaultTTLByCategory ==
    (/\ last.op = "set"
     /\ last.f = "none"
     /\ CanPickle(last.data)
     /\ last.expiry_seconds = NoTTL)
    => \E r \in RowsOf(rows, last) :
          /\ r.timestamp = now
          /\ r.data_type = last.data_type
          /\ r.expiry_seconds
                = (IF last.data_type \in {price, stock_data, market_data, options,
                                          options_chain}
                   THEN 15 * 60
                   ELSE IF last.data_type \in {fundamental, fundamentals, analyst_ratings}
                   THEN 24 * 60 * 60
                   ELSE IF last.data_type = news THEN 60 * 60
                   ELSE 24 * 60 * 60)

\* a set without expiry_seconds under a data type the map does not name
C18_Witness ==
    /\ last.op = "set"
    /\ last.expiry_seconds = NoTTL
    /\ last.data_type = earnings
    /\ \E r \in RowsOf(rows, last) : r.expiry_seconds = 24 * 60 * 60

\* the rows of the pairs on record, and whether the TTL resolved when the
\* pair was written has elapsed
RowsOfPair(k) == {r \in rows : r.key = _make_key(k[1], k[2])}

Elapsed(k) == now - written[k].at > written[k].ttl

\* C19  TTL is captured at write time: whatever class Config says now, the
\* row of a write has the expiry_seconds resolved when it was written, and
\* it is the passing of that many seconds that makes get answer absent, the
\* sweep remove the row and get_stats count it expired.
C19_TTLCapturedAtWrite ==
    /\ \A k \in DOMAIN written : \A r \in RowsOfPair(k) :
          /\ r.timestamp = written[k].at
          /\ r.expiry_seconds = written[k].ttl
    /\ (last.op = "get" /\ LastEntry.state = "set")
       => (last.result = LastEntry.data
             <=> ~Elapsed(Pair(last.ticker, last.data_type)))
    /\ last.op = "clear_expired"
       => \A k \in DOMAIN written :
             /\ Elapsed(k) => RowsOfPair(k) = {}
             /\ ~Elapsed(k) => RowsOfPair(k) # {}
    /\ last.op = "get_stats"
       => /\ last.stats[2]
                = Cardinality({k \in DOMAIN written : RowsOfPair(k) # {} /\ Elapsed(k)})
          /\ last.stats[3]
                = Cardinality({k \in DOMAIN written : RowsOfPair(k) # {} /\ ~Elapsed(k)})

\* a get returning a record written with the default TTL, after the default
\* was lowered to less than the time that has passed since the write
C19_Witness ==
    /\ last.op = "get"
    /\ LastEntry.state = "set"
    /\ LastEntry.expiry_seconds = NoTTL
    /\ _get_default_expiry(last.data_type) < LastEntry.ttl
    /\ now - LastEntry.at > _get_default_expiry(last.data_type)
    /\ last.result = LastEntry.data
    /\ last.result # None

\* C20  Delete: a delete on a healthy store raises nothing and leaves the
\* table without the row of its key and with every other row as it was; a
\* get of the key, under either spelling of the ticker, then answers absent;
\* if the key had no row the table is unchanged, and a second delete changes
\* nothing more.
C20_Delete ==
    [][last'.op = "delete"
       => LET key == _make_key(last'.ticker, last'.data_type)
          IN  /\ last'.raised = NoExc
              /\ rows' = {r \in rows : r.key # key}
              /\ \A t \in Tickers :
                    upper(t) = upper(last'.ticker)
                    => /\ ~HasRow(rows', t, last'.data_type)
                       /\ get(rows', t, last'.data_type, "none", "none").result = None
                       /\ get(rows', t, last'.data_type, "none", "none").raised = NoExc
              /\ ~HasRow(rows, last'.ticker, last'.data_type) => rows' = rows
              /\ delete(rows', last'.ticker, last'.data_type, "none").rows = rows'
              /\ delete(rows', last'.ticker, last'.data_type, "none").raised = NoExc]_vars

\* a delete that removed the row of its key and left another row in place
C20_Witness ==
    /\ last.op = "delete"
    /\ last.had
    /\ last.raised = NoExc
    /\ ~HasRow(rows, last.ticker, last.data_type)
    /\ \E r \in rows : r.data_type # last.data_type

\* C21  The expiry sweep removes exactly the expired rows: clear_expired on
\* a healthy store leaves the rows whose timestamp plus expiry_seconds the
\* clock has not passed, each as it was, and no other row; and no row that
\* has expired leaves the table in a get, set or delete of another key, in
\* get_stats, or by the passing of time.
C21_SweepRemovesExpired ==
    [][/\ last'.op = "clear_expired"
          => /\ last'.raised = NoExc
             /\ rows' = {r \in rows : now <= r.timestamp + r.expiry_seconds}
       /\ last'.op \in {"get", "set", "delete"}
          => \A r \in rows :
                (/\ now > r.timestamp + r.expiry_seconds
                 /\ r.key # _make_key(last'.ticker, last'.data_type))
                => r \in rows'
       /\ last'.op \in {"get_stats", "tick"} => rows' = rows]_vars

\* a sweep that removed a row and left another, not yet expired, in place
C21_Witness ==
    /\ last.op = "clear_expired"
    /\ last.had
    /\ \E k \in DOMAIN written : Elapsed(k) /\ RowsOfPair(k) = {}
    /\ \E k \in DOMAIN written :
          /\ ~Elapsed(k)
          /\ \E r \in RowsOfPair(k) : r.timestamp < now /\ loads(r.value) = written[k].data

\* C22  The expiry sweep returns its count: clear_expired returns the number
\* of rows it removed.
C22_SweepReturnsCount ==
    [][last'.op = "clear_expired"
       => /\ last'.result.kind = "int"
          /\ last'.result.v = Cardinality(rows) - Cardinality(rows')]_vars

\* C23  get_stats is a read-only snapshot: get_stats on a healthy store
\* changes no row, expired ones included, and reports as total_entries the
\* number of rows, as expired_entries the number of rows whose timestamp
\* plus expiry_seconds the clock has passed, and as valid_entries the
\* difference of the two.
C23_StatsReadOnly ==
    [][last'.op = "get_stats"
       => /\ rows' = rows
          /\ last'.raised = NoExc
          /\ last'.stats[1] = Cardinality(rows)
          /\ last'.stats[2]
                = Cardinality({r \in rows : now > r.timestamp + r.expiry_seconds})
          /\ last'.stats[3] = last'.stats[1] - last'.stats[2]]_vars

\* statistics that count an expired row and a valid one, both still there
C23_Witness ==
    /\ last.op = "get_stats"
    /\ last.stats[2] >= 1
    /\ last.stats[3] >= 1
    /\ Cardinality(rows) = last.stats[1]
    /\ \E r \in rows : now > r.timestamp + r.expiry_seconds

\* the ticker component of a row's key: the key without ":" and the data type
TickerOf(r) == SubSeq(r.key, 1, Len(r.key) - Len(r.data_type) - 1)

\* C24  clear_ticker removes all of a ticker's rows: after clear_ticker(t) on
\* a healthy store no row is left whose key's ticker is t in upper case,
\* whatever its data type, and a get of t, in either spelling, answers
\* absent for every data type.
C24_ClearTickerRemovesAll ==
    [][last'.op = "clear_ticker"
       => /\ last'.raised = NoExc
          /\ \A r \in rows' : TickerOf(r) # upper(last'.ticker)
          /\ rows' \subseteq rows
          /\ \A t \in TickerSet, c \in DataTypes :
                upper(t) = upper(last'.ticker)
                => /\ ~HasRow(rows', t, c)
                   /\ get(rows', t, c, "none", "none").result = None]_vars

\* clear_ticker("ab") removed rows written under AB and left another ticker's
C24_Witness ==
    /\ last.op = "clear_ticker"
    /\ last.ticker = ab
    /\ last.had
    /\ \A r \in rows : TickerOf(r) # AB
    /\ rows # {}

\* C30  clear_ticker touches no other ticker: clear_ticker(t) leaves in place,
\* as it was, every row whose key's ticker is not t in upper case, also when
\* t holds a character the LIKE pattern reads as a wildcard.
C30_ClearTickerTouchesNoOther ==
    [][last'.op = "clear_ticker"
       => \A r \in rows : TickerOf(r) # upper(last'.ticker) => r \in rows']_vars

\* C27  Entry lifecycle: a row enters the table only in a set, under the key
\* of that set; a row leaves it only in a set or delete of its key, in a get
\* of its key that finds it expired, in a sweep when it is expired, in a
\* clear_ticker of its ticker, or in clear_all; and a get that finds no row
\* or a row not expired leaves the table as it was.
C27_EntryLifecycle ==
    [][/\ \A r \in rows' \ rows :
             /\ last'.op = "set"
             /\ r.key = _make_key(last'.ticker, last'.data_type)
       /\ \A r \in rows \ rows' :
             \/ /\ last'.op \in {"set", "delete"}
                /\ r.key = _make_key(last'.ticker, last'.data_type)
             \/ /\ last'.op = "get"
                /\ r.key = _make_key(last'.ticker, last'.data_type)
                /\ now > r.timestamp + r.expiry_seconds
             \/ /\ last'.op = "clear_expired"
                /\ now > r.timestamp + r.expiry_seconds
             \/ /\ last'.op = "clear_ticker"
                /\ TickerOf(r) = upper(last'.ticker)
             \/ last'.op = "clear_all"
       /\ (/\ last'.op = "get"
           /\ \A r \in RowsOf(rows, last') : now <= r.timestamp + r.expiry_seconds)
          => rows' = rows]_vars

\* a get, later than the write, that returned the record and left the row
\* with the timestamp of the write
C27_Witness ==
    /\ last.op = "get"
    /\ last.result # None
    /\ LastEntry.state = "set"
    /\ now > LastEntry.at
    /\ \E r \in RowsOf(rows, last) :
          /\ r.timestamp = LastEntry.at
          /\ loads(r.value) = last.result

\* C28  Idempotent schema creation over persistent storage: constructing a
\* Cache on a database that holds the table raises nothing and leaves every
\* row as it was, so that an entry written before, not removed and not yet
\* expired, is what get returns afterwards.
C28_SchemaCreationIdempotent ==
    /\ [][last'.op = "__init__"
          => /\ last'.raised = NoExc
             /\ rows' = rows
             /\ \A k \in DOMAIN written : \A t \in Tickers :
                   (upper(t) = k[1] /\ ~Elapsed(k))
                   => get(rows', t, k[2], "none", "none").result = written[k].data]_vars
    /\ [](last.op = "get" /\ LastEntry.state = "set"
            => (last.result = LastEntry.data
                  <=> ~Elapsed(Pair(last.ticker, last.data_type))))

\* a handle constructed some time after a write: the row is there and a get
\* returns its record
C28_Witness ==
    /\ last.op = "__init__"
    /\ \E k \in DOMAIN written :
          /\ now > written[k].at
          /\ ~Elapsed(k)
          /\ \E r \in RowsOfPair(k) : loads(r.value) = written[k].data
          /\ get(rows, aapl, k[2], "none", "none").result = written[k].data
          /\ written[k].data # None

(***************************************************************************)
(* Properties of the store when the storage layer fails (SpecFaults).      *)
(***************************************************************************)
StoreOps == {"get", "set", "delete", "clear_ticker", "clear_all", "clear_expired",
             "get_stats"}

\* C13  Encoding failure abandons the write: a set handed a record that
\* cannot be pickled returns without raising, whatever the state of the
\* storage layer, and leaves the table as it was: the row of the key keeps
\* its value, timestamp and expiry, and a get answers as it did before.
C13_EncodingFailureAbandons ==
    [][(last'.op = "set" /\ ~CanPickle(last'.data))
       => /\ last'.raised = NoExc
          /\ rows' = rows
          /\ RowsOf(rows', last') = RowsOf(rows, last')
          /\ get(rows', last'.ticker, last'.data_type, "none", "none")
                = get(rows, last'.ticker, last'.data_type, "none", "none")]_vars

\* a set of an unpicklable record, the store unreachable, on a key that has a
\* row written earlier: the row is still there
C13_Witness ==
    /\ last.op = "set"
    /\ ~CanPickle(last.data)
    /\ last.f = "connect"
    /\ last.raised = NoExc
    /\ last.had
    /\ LastEntry.state = "set"
    /\ now > LastEntry.at
    /\ \E r \in RowsOf(rows, last) :
          /\ loads(r.value) = LastEntry.data
          /\ r.timestamp = LastEntry.at
          /\ r.expiry_seconds = LastEntry.ttl

\* C5  Storage failures fail open: no store operation ends in an exception;
\* when the backing store cannot be opened or a query fails, get returns
\* absent and set, delete, clear_ticker, clear_all and the sweep return
\* silently.
C5_StorageFailOpen ==
    last.op \in StoreOps
    => /\ last.raised = NoExc
       /\ (last.op = "get" /\ last.f # "none") => last.result = None

(***************************************************************************)
(* Properties of the wrapper.                                              *)
(***************************************************************************)
SingleOps == {"fetch_stock_price_history", "fetch_fundamental_data",
              "fetch_options_chain", "fetch_analyst_recommendations",
              "fetch_news_headlines"}

\* what the DataFetcher method behind a wrapper method gives for an answer
\* of the provider
FetcherOutcome(op, ticker, resp) ==
    CASE op = "fetch_stock_price_history" ->
            DataFetcher_fetch_stock_price_history(ticker, resp)
      [] op = "fetch_fundamental_data" -> DataFetcher_fetch_fundamental_data(ticker, resp)
      [] op = "fetch_options_chain" -> DataFetcher_fetch_options_chain(ticker, resp)
      [] op = "fetch_analyst_recommendations" ->
            DataFetcher_fetch_analyst_recommendations(ticker, resp)
      [] op = "fetch_all_data" -> DataFetcher_fetch_all_data(ticker, resp)
      [] OTHER -> DataFetcher_fetch_news_headlines(ticker, resp)

\* C3  Cache-aside hit avoids fetch: in a single-category wrapper call with
\* use_cache true, if Cache.get returns a record the wrapper returns that
\* record and the fetcher is not invoked; in particular a call made within
\* the TTL window of an entry an earlier call wrote, the lookup not failing,
\* leaves the call count unchanged and returns a record equal to the one
\* written.
C3_HitAvoidsFetch ==
    [][(last'.op \in SingleOps /\ last'.use_cache)
       => LET g == get(rows, last'.ticker, last'.data_type, last'.f, last'.fd)
              e == Entry(Pair(last'.ticker, last'.data_type))
          IN  /\ (g.raised = NoExc /\ g.result # None)
                 => /\ last'.result = g.result
                    /\ last'.raised = NoExc
                    /\ last'.fetched = 0
                    /\ calls' = calls
              /\ (/\ e.state = "set"
                  /\ last'.f = "none"
                  /\ now - e.at < Resolved(e.expiry_seconds, last'.data_type))
                 => /\ calls' = calls
                    /\ last'.result = e.data]_vars

\* a second call, later than the first and within its TTL, served from the cache
C3_Witness ==
    /\ last.op \in SingleOps
    /\ last.hit
    /\ last.fetched = 0
    /\ calls = 1
    /\ LastEntry.state = "set"
    /\ now > LastEntry.at
    /\ last.result = LastEntry.data

\* C4  No stale data from the wrapper (healthy store): a single-category call
\* that returns without invoking the fetcher returns the record of a row
\* whose TTL has not elapsed; a call that finds the row of its key expired
\* invokes the fetcher once and, when the fetch succeeds, returns the record
\* just fetched and leaves under the key a row holding it, stamped now.
C4_NoStaleData ==
    [][(last'.op \in SingleOps /\ last'.use_cache)
       => /\ (last'.fetched = 0 /\ last'.raised = NoExc)
             => \E r \in RowsOf(rows, last') :
                   /\ now <= r.timestamp + r.expiry_seconds
                   /\ last'.result = loads(r.value)
          /\ \A r \in RowsOf(rows, last') :
                now > r.timestamp + r.expiry_seconds
                => /\ calls' = calls + 1
                   /\ last'.fetched = 1
                   /\ last'.raised = NoExc
                      => /\ last'.result.v = last'.provider.v
                         /\ last'.result.kind # "list" => last'.result.timestamp = now
                         /\ last'.result
                               = FetcherOutcome(last'.op, last'.ticker, last'.provider).result
                         /\ \E w \in rows' :
                               /\ RowsOf(rows', last') = {w}
                               /\ w.timestamp = now
                               /\ loads(w.value) = last'.result]_vars

\* a call that found the row of its key expired, fetched again and rewrote it
C4_Witness ==
    /\ last.op \in SingleOps
    /\ last.had
    /\ last.fetched = 1
    /\ last.raised = NoExc
    /\ calls = 2
    /\ now > 0
    /\ \E w \in RowsOf(rows, last) : w.timestamp = now /\ loads(w.value) = last.result

WrapperOps == SingleOps \cup {"fetch_all_data"}

\* C14  use_cache = false bypasses the cache: every request to a wrapper
\* built with use_cache false invokes the fetcher method exactly once and
\* ends as that method ends, with its record or its exception; the store is
\* not consulted (its being unreachable changes nothing, a valid row under
\* the key is not returned) and not written: every row stays as it was.
C14_BypassLeavesStore ==
    [][(last'.op \in WrapperOps /\ ~last'.use_cache)
       => LET fetch == FetcherOutcome(last'.op, last'.ticker, last'.provider)
          IN  /\ calls' = calls + 1
              /\ last'.fetched = 1
              /\ last'.result = fetch.result
              /\ last'.raised = fetch.raised
              /\ ~last'.hit
              /\ ~last'.wrote
              /\ rows' = rows
              /\ written' = written]_vars

\* a call with use_cache false, the store unreachable, while a valid row sits
\* under the key: a record fetched now is returned and the row is still there
C14_Witness ==
    /\ last.op \in WrapperOps
    /\ ~last.use_cache
    /\ last.f = "connect"
    /\ last.fetched = 1
    /\ last.raised = NoExc
    /\ now > 0
    /\ \E r \in RowsOf(rows, last) :
          /\ now <= r.timestamp + r.expiry_seconds
          /\ r.timestamp < now
          /\ loads(r.value) # last.result

\* C6  Populate returns the record regardless of write outcome: on a miss
\* with a successful fetch the wrapper returns the fetched record to its
\* caller whether or not the cache write went through, the backing store
\* being unavailable included.
C6_PopulateReturnsRecord ==
    (/\ last.op \in SingleOps
     /\ last.fetched = 1
     /\ FetcherOutcome(last.op, last.ticker, last.provider).raised = NoExc)
    => /\ last.raised = NoExc
       /\ last.result = FetcherOutcome(last.op, last.ticker, last.provider).result

\* C7 as stated  Miss with failing collaborator: when the fetcher method
\* fails after a miss, the same failure reaches the caller, Cache.set is not
\* called, and the rows under the key are what they were before the call.
C7_FailingFetchLeavesRow ==
    [][(/\ last'.op \in SingleOps
        /\ last'.fetched = 1
        /\ FetcherOutcome(last'.op, last'.ticker, last'.provider).raised # NoExc)
       => /\ last'.raised = FetcherOutcome(last'.op, last'.ticker, last'.provider).raised
          /\ ~last'.wrote
          /\ RowsOf(rows', last') = RowsOf(rows, last')]_vars

\* C7 amended  When the fetcher method fails after a miss, the same failure
\* reaches the caller and Cache.set is not called, so no row is written: the
\* table is as the lookup left it, unchanged but for a row of the key that
\* the lookup found expired and removed.
C7_FailingFetchWritesNothing ==
    [][(/\ last'.op \in SingleOps
        /\ last'.fetched = 1
        /\ FetcherOutcome(last'.op, last'.ticker, last'.provider).raised # NoExc)
       => /\ last'.raised = FetcherOutcome(last'.op, last'.ticker, last'.provider).raised
          /\ ~last'.wrote
          /\ calls' = calls + 1
          /\ rows' \subseteq rows
          /\ \A r \in rows \ rows' :
                /\ r \in RowsOf(rows, last')
                /\ now > r.timestamp + r.expiry_seconds]_vars

\* a failed fetch after the lookup removed the expired row of the key
C7_Witness ==
    /\ last.op \in SingleOps
    /\ last.fetched = 1
    /\ last.raised = ProviderError
    /\ last.had
    /\ ~HasRow(rows, last.ticker, last.data_type)

\* C8  Provider failures are not swallowed in single-category operations:
\* when the provider fails during one of the five single-category requests,
\* the request ends in an exception, returns no record and writes no row.
C8_ProviderFailureIsExplicit ==
    (/\ last.op \in SingleOps
     /\ last.fetched = 1
     /\ last.provider.status = "error")
    => /\ last.raised # NoExc
       /\ ~last.wrote
       /\ ~HasRow(rows, last.ticker, last.data_type)

(***************************************************************************)
(* Properties of the bundle.                                               *)
(***************************************************************************)
\* whether the provider's answer makes the i-th request of a bundle fail: an
\* exception does, and so does an empty price history
Fails(i, resp) == resp.status = "error" \/ (i = 1 /\ resp.status = "empty")

\* C15  Bundle partial failure: fetch_all_data never raises; whichever of the
\* five requests fail, the bundle it returns holds a record for exactly the
\* categories whose request succeeded, None for the failed ones and [] for
\* failed news, and is_complete is true exactly when stock_data and
\* fundamentals are both there, whatever became of the other three.
C15_BundlePartialFailure ==
    last.op = "DataFetcher.fetch_all_data"
    => /\ last.raised = NoExc
       /\ last.result.kind = "MarketData"
       /\ last.result.ticker = upper(last.ticker)
       /\ \A i \in {1, 2, 3, 5} :
             /\ Fails(i, last.provider[i]) <=> last.result.parts[i] = None
             /\ ~Fails(i, last.provider[i])
                => /\ last.result.parts[i].v = last.provider[i].v
                   /\ last.result.parts[i].ticker = upper(last.ticker)
       /\ last.result.parts[1] # None => last.result.parts[1].kind = "StockData"
       /\ last.result.parts[2] # None => last.result.parts[2].kind = "Fundamentals"
       /\ last.result.parts[3] # None => last.result.parts[3].kind = "OptionsChain"
       /\ last.result.parts[5] # None => last.result.parts[5].kind = "AnalystRatings"
       /\ last.result.parts[4].kind = "list"
       /\ Fails(4, last.provider[4]) => last.result.parts[4] = EmptyList
       /\ ~Fails(4, last.provider[4]) => last.result.parts[4].v = last.provider[4].v
       /\ is_complete(last.result)
             <=> (~Fails(1, last.provider[1]) /\ ~Fails(2, last.provider[2]))

\* the options request failed, price history and fundamentals did not: the
\* bundle lacks the options chain and is complete
C15_Witness ==
    /\ last.op = "DataFetcher.fetch_all_data"
    /\ last.provider[1].status = "data"
    /\ last.provider[2].status = "data"
    /\ last.provider[3].status = "error"
    /\ last.result.parts[1] # None
    /\ last.result.parts[2] # None
    /\ last.result.parts[3] = None
    /\ is_complete(last.result)

\* the rows of the bundle's data type, and the rest
BundleRows(rs) == {r \in rs : r.data_type = market_data}

CategoryRows(rs) == {r \in rs : r.data_type # market_data}

\* C16  The bundle is cached as its own unit: fetch_all_data of the wrapper
\* changes no row but the one keyed (ticker, market_data) and ends as it
\* would were the per-category rows not there, its bundle on a miss built
\* from records fetched now; a single-category wrapper call changes no
\* market_data row and ends as it would were the market_data row not there.
C16_BundleOwnUnit ==
    [][/\ (last'.op = "fetch_all_data" /\ last'.use_cache)
          => LET alone == CachedFetch(BundleRows(rows), TRUE, last'.ticker, market_data,
                              DataFetcher_fetch_all_data(last'.ticker, last'.provider),
                              last'.f, last'.fd, last'.fs)
             IN  /\ CategoryRows(rows') = CategoryRows(rows)
                 /\ \A r \in (rows' \ rows) \cup (rows \ rows') :
                       r.key = _make_key(last'.ticker, market_data)
                 /\ last'.result = alone.result
                 /\ last'.raised = alone.raised
                 /\ last'.fetched = alone.fetched
                 /\ BundleRows(rows') = alone.rows
                 /\ (last'.fetched = 1 /\ last'.result.parts[1] # None)
                       => last'.result.parts[1].timestamp = now
       /\ (last'.op \in SingleOps /\ last'.use_cache)
          => LET alone == CachedFetch(CategoryRows(rows), TRUE, last'.ticker,
                              last'.data_type,
                              FetcherOutcome(last'.op, last'.ticker, last'.provider),
                              last'.f, last'.fd, last'.fs)
             IN  /\ BundleRows(rows') = BundleRows(rows)
                 /\ \A r \in (rows' \ rows) \cup (rows \ rows') :
                       r.key = _make_key(last'.ticker, last'.data_type)
                 /\ last'.result = alone.result
                 /\ last'.raised = alone.raised
                 /\ last'.fetched = alone.fetched
                 /\ CategoryRows(rows') = alone.rows]_vars

\* a bundle fetched and cached while an older, still valid row of price
\* history sits in the table: that row is untouched and the bundle's price
\* history is the one fetched now
C16_Witness ==
    /\ last.op = "fetch_all_data"
    /\ last.use_cache
    /\ last.fetched = 1
    /\ last.wrote
    /\ \E r \in BundleRows(rows), c \in CategoryRows(rows) :
          /\ r.key = _make_key(last.ticker, market_data)
          /\ r.timestamp = now
          /\ loads(r.value) = last.result
          /\ last.result.parts[1] # None
          /\ last.result.parts[1].timestamp = now
          /\ c.data_type = stock_data
          /\ c.timestamp < now
          /\ now <= c.timestamp + c.expiry_seconds

(***************************************************************************)
(* Properties of calls made at the same time.                              *)
(***************************************************************************)
\* every thread has returned from its call
AllDone == \A p \in Procs : procs[p].pc = "done"

\* C25: when two set calls for the same (ticker, category) run at the same
\* time, then in every interleaving of their statements at most one row is
\* under the key, that row is entirely the row of one of the calls that have
\* returned (value, category, timestamp and expiry together), and once both
\* have returned exactly one row is there.
C25_LastWriteWins ==
    /\ \A r1, r2 \in rows : r1.key = r2.key => r1 = r2
    /\ \A r \in rows : \E p \in Procs :
          procs[p].op = "set" /\ procs[p].pc = "done" /\ r = RowOf(procs[p])
    /\ AllDone => Cardinality(rows) = 1

\* two racing set calls that differ in value, timestamp and expiry have
\* returned, and the row is the one of the call whose timestamp is older
C25_Witness ==
    /\ AllDone
    /\ \A p \in Procs : procs[p].op = "set"
    /\ procs[1].data # procs[2].data
    /\ procs[1].expiry_seconds # procs[2].expiry_seconds
    /\ procs[1].timestamp < procs[2].timestamp
    /\ rows = {RowOf(procs[1])}

\* the thread's call went to the Fetch Collaborator and got a record
Fetched(p) == procs[p].fetched # None

\* C26: two wrapper requests for the same key made at the same time may both
\* miss, both fetch and both write; in every interleaving a caller whose
\* fetch produced a record returns that record, and once both have returned
\* from fetches that produced records, the one row under the key is the row
\* one of the two wrote.
C26_ConcurrentMisses ==
    /\ \A p \in Procs :
          procs[p].pc = "done" /\ Fetched(p)
          => procs[p].result = procs[p].fetched /\ procs[p].raised = NoExc
    /\ (AllDone /\ \A p \in Procs : Fetched(p))
          => \E p \in Procs :
                /\ rows = {RowOf(procs[p])}
                /\ loads(RowOf(procs[p]).value) = procs[p].fetched

\* both requests missed on an empty table, the Fetch Collaborator was invoked
\* twice and gave two different records, each caller has its own record, and
\* the row is the one of the second thread
C26_Witness ==
    /\ AllDone
    /\ calls = 2
    /\ last.op = "init"
    /\ \A p \in Procs : Fetched(p) /\ procs[p].result = procs[p].fetched
    /\ procs[1].result # procs[2].result
    /\ rows = {RowOf(procs[2])}

\* the thread takes a step that runs a DELETE of get's lazy deletion or of
\* the sweep
RemovesExpired(p) ==
    /\ procs[p].pc \in {"get_delete", "sweep_loop"}
    /\ procs'[p] # procs[p]

\* C29: in every interleaving of a get that found an expired row, or of an
\* expiry sweep, with a set on the same key made at the same time, a row that
\* get's lazy deletion or the sweep removes is expired at the moment it is
\* removed: the fresh row the set wrote stays.
C29_ExpiryRemovesOnlyExpired ==
    [][\A p \in Procs : RemovesExpired(p)
          => \A r \in rows \ rows' : now > r.timestamp + r.expiry_seconds]_vars

(***************************************************************************)
(* Properties of the wrapper's bundle.                                     *)
(***************************************************************************)
\* C31  Incomplete bundles are cached like complete ones: a caching
\* fetch_all_data that went to the collaborator stores the bundle it got,
\* whatever is_complete says of it, in the one row under (ticker, market_data)
\* with the timestamp of the call and Config.PRICE_CACHE_EXPIRY; and a
\* fetch_all_data for a ticker whose bundle was stored no longer ago than
\* that returns the stored bundle and does not go to the collaborator.
C31_IncompleteBundlesCached ==
    [][(last'.op = "fetch_all_data" /\ last'.use_cache)
       => LET k == Pair(last'.ticker, market_data)
              e == Entry(k)
          IN  /\ last'.fetched = 1
                 => /\ last'.result
                         = DataFetcher_fetch_all_data(last'.ticker, last'.provider).result
                    /\ last'.raised = NoExc
                    /\ \E r \in rows' :
                          /\ {x \in rows' : x.key = _make_key(last'.ticker, market_data)} = {r}
                          /\ loads(r.value) = last'.result
                          /\ r.data_type = market_data
                          /\ r.timestamp = now
                          /\ r.expiry_seconds = config.PRICE_CACHE_EXPIRY
              /\ (e.state = "set" /\ now - e.at <= config.PRICE_CACHE_EXPIRY)
                 => /\ last'.result = e.data
                    /\ last'.fetched = 0
                    /\ calls' = calls
                    /\ rows' = rows]_vars

\* a bundle in which every request failed, stored by an earlier call, is
\* returned a second later to a call naming the ticker in another case
C31_Witness ==
    /\ last.op = "fetch_all_data" /\ last.use_cache
    /\ last.hit /\ last.fetched = 0
    /\ ~is_complete(last.result)
    /\ last.result.parts = <<None, None, None, EmptyList, None>>
    /\ calls = 1
    /\ now = 1 /\ LastEntry.at = 0
    /\ last.ticker = aapl

\* the wrapper methods that pass keyword arguments on to the collaborator
ParamOps == {"fetch_stock_price_history", "fetch_news_headlines"}

\* C32  Category-specific parameters are not part of the cache key: a caching
\* wrapper call for (ticker, category) made while the entry stored for that
\* pair is within its TTL returns the stored record, does not go to the
\* collaborator and leaves the table as it was, whatever its keyword
\* arguments and those of the call that stored the entry; so a call right
\* after one that returned a record returns the same record.
C32_ParametersNotInKey ==
    [][(last'.op \in ParamOps /\ last'.use_cache)
       => LET e == Entry(Pair(last'.ticker, last'.data_type))
          IN  /\ (e.state = "set" /\ now - e.at <= e.ttl)
                 => /\ last'.result = e.data
                    /\ last'.fetched = 0
                    /\ calls' = calls
                    /\ rows' = rows
              /\ (/\ last.op = last'.op
                  /\ upper(last.ticker) = upper(last'.ticker)
                  /\ last.use_cache
                  /\ last.raised = NoExc)
                 => /\ last'.result = last.result
                    /\ last'.fetched = 0]_vars

\* a call asking for twenty headlines gets the single headline that a call
\* with max_items = 1 stored a second before
C32_Witness ==
    /\ last.op = "fetch_news_headlines" /\ last.use_cache
    /\ last.hit /\ last.fetched = 0
    /\ last.kwargs = <<20>>
    /\ LastEntry.kwargs = <<1>>
    /\ last.result = LastEntry.data
    /\ last.result.v = 1
    /\ now = LastEntry.at + 1

\* C33  stats stays consistent under concurrent writes: in every interleaving
\* of get_stats with a set, a delete or a sweep made at the same time the
\* dictionary it returns has 0 <= expired_entries <= total_entries and so
\* valid_entries >= 0.
C33_StatsConsistent ==
    \A p \in Procs :
        (procs[p].op = "get_stats" /\ procs[p].pc = "done")
        => /\ 0 <= procs[p].stats[2]
           /\ procs[p].stats[2] <= procs[p].stats[1]
           /\ procs[p].stats[3] >= 0

(***************************************************************************)
(* Properties of the key.                                                  *)
(***************************************************************************)
\* C34  Key construction is injective: a set on (ticker, category) leaves in
\* place, as it was, the row of every pair that differs from it after the
\* ticker is put in upper case, also when a ticker or a category holds ':'.
C34_KeyInjective ==
    [][last'.op = "set"
       => \A k \in DOMAIN written :
             (k # Pair(last'.ticker, last'.data_type) /\ written[k].state = "set")
             => /\ RowsOfPair(k) \subseteq rows'
                /\ \A r \in RowsOfPair(k) :
                      r.key # _make_key(last'.ticker, last'.data_type)]_vars

=============================================================================
